---- MODULE Spec2Model ----
EXTENDS Integers, Sequences, FiniteSets, TLC

(***************************************************************************)
(* DocDB read path of yb/docdb/docdb_rocksdb_util.cc: SeekToValidKvAtTs,   *)
(* SeekForward, SeekPastSubKey and PerformRocksDBSeek over an ordered      *)
(* key-value engine, with the key / value codecs and the intent-aware      *)
(* iterator they rely on.                                                  *)
(***************************************************************************)

\* ------------------------------------------------------------------ bounds
\* Number of key/value entries written to the regular key space in the
\* iterator-movement specification (SpecIter).
MaxEntries == 3
\* Number of entries written in the read-path specification (Spec), where each
\* entry also chooses a TTL and a write batch.
MaxVersions == 2
\* Largest value tried for the flag max_nexts_to_avoid_seek (default 8).
MaxNexts == 1
\* Largest TTL (in hybrid-time units) a written value may carry.
MaxTtl == 1
\* Number of distributed transactions in the intent specification (SpecIntent).
MaxTxns == 2
\* Number of intents written there.
MaxIntents == 2
\* Number of committed entries written to the regular key space there.
MaxRegular == 1
\* How far behind the latest hybrid time a read there may be.
MaxReadLag == 1
\* Largest hybrid time and write id of the keys given to the codec
\* specification (SpecCodec), besides the largest representable ones.
MaxCodecTime == 2
MaxCodecWriteId == 1
\* Number of entries in the damaged key space (SpecCorrupt).
MaxRaw == 2
\* Number of write batches and of operations in one batch in the tablet
\* specification (SpecTablet).
MaxBatches == 2
MaxBatchOps == 2
\* Largest number of elements of a block and largest element in the block
\* specification (SpecBlock).
MaxElems == 3
MaxValue == 2
\* Flag values down to -MaxNegative are set.
MaxNegative == 1
\* Threads that write, the hybrid times they write at and the flushes that
\* are scheduled in the flush statistics specification (SpecFlush).
MaxWriters == 2
MaxWriteTime == 2
MaxFlushes == 2
\* Requests and hybrid times in the transaction status operation
\* specification (SpecTxnOp).
MaxRequests == 2
MaxOpTime == 2

\* Largest value of a UUID byte (of the timestamp bits kept in the byte that
\* also holds the version) in the UUID specification (SpecUuid).
MaxByte == 1

\* ------------------------------------------------- scaled program constants
\* Largest write id: the sentinel used in every "read as of T" probe.
kMaxWriteId == 3
\* Largest hybrid time the fixed-width timestamp field can hold.
kMaxHybridTime == 7
\* ValueType tag that introduces the DocHybridTime suffix of a key.  It sorts
\* before every sub-key component, so a node precedes its children.
kHybridTime == 0
\* ValueType tags of a stored value.
kTombstone == 1
kTtl == 2
kString == 3
\* Value::kMaxTtl: the "never expires" sentinel.
kMaxTtl == 255

\* The document tree: a, a.b, a.c (one byte per path component).
Paths == {<<1>>, <<1, 1>>, <<1, 2>>}
\* The part of it that transactions write to: a, a.b.
IntentPaths == {<<1>>, <<1, 1>>}

OK == "OK"
Corruption == "Corruption"

\* ------------------------------------------------------------ byte strings
\* Slice::compare as used by BytewiseComparatorImpl::Compare: -1, 0 or 1.
RECURSIVE Compare(_, _)
Compare(a, b) ==
  IF a = <<>> /\ b = <<>> THEN 0
  ELSE IF a = <<>> THEN -1
  ELSE IF b = <<>> THEN 1
  ELSE IF Head(a) < Head(b) THEN -1
  ELSE IF Head(a) > Head(b) THEN 1
  ELSE Compare(Tail(a), Tail(b))

\* Slice::starts_with.
starts_with(key, prefix) ==
  /\ Len(key) >= Len(prefix)
  /\ SubSeq(key, 1, Len(prefix)) = prefix

\* ------------------------------------------------------ DocHybridTime codec
\* DocHybridTime::kMin: the smallest doc hybrid time.
DocHybridTime_kMin == [hybrid_time |-> 0, write_id |-> 0]

\* Mutant: the time is encoded as it is, not reversed.
EncodedDocHt_Ascending(dht) == <<dht.hybrid_time, dht.write_id>>

\* The monotonic-reversing, fixed-width encoding of a DocHybridTime: a larger
\* (hybrid_time, write_id) gives a smaller byte string.
EncodedDocHt(dht) ==
  <<kMaxHybridTime - dht.hybrid_time, kMaxWriteId - dht.write_id>>

\* AppendDocHybridTime(dht, &key_bytes): the tag, then the encoded time.
AppendDocHybridTime(dht, key_bytes) ==
  key_bytes \o <<kHybridTime>> \o EncodedDocHt(dht)

\* Mutant: the decoder reads the time field without undoing the reversal.
DecodeFromEnd_NotReversed(key) ==
  IF Len(key) >= 3 /\ key[Len(key) - 2] = kHybridTime
  THEN [status |-> OK,
        dht |-> [hybrid_time |-> key[Len(key) - 1], write_id |-> key[Len(key)]],
        prefix |-> SubSeq(key, 1, Len(key) - 3)]
  ELSE [status |-> Corruption, dht |-> DocHybridTime_kMin, prefix |-> <<>>]

\* DocHybridTime::DecodeFromEnd(key): Corruption unless the key ends in a
\* well-formed timestamp field.
DecodeFromEnd(key) ==
  IF /\ Len(key) >= 3
     /\ key[Len(key) - 2] = kHybridTime
     /\ key[Len(key) - 1] \in 0..kMaxHybridTime
     /\ key[Len(key)] \in 0..kMaxWriteId
  THEN [status |-> OK,
        dht |-> [hybrid_time |-> kMaxHybridTime - key[Len(key) - 1],
                 write_id |-> kMaxWriteId - key[Len(key)]],
        prefix |-> SubSeq(key, 1, Len(key) - 3)]
  ELSE [status |-> Corruption, dht |-> DocHybridTime_kMin, prefix |-> <<>>]

\* KeyBytes::ReplaceLastHybridTimeForSeek(hybrid_time): rewrite the trailing
\* timestamp field to (hybrid_time, kMaxWriteId).
ReplaceLastHybridTimeForSeek(key, hybrid_time) ==
  LET dec == DecodeFromEnd(key) IN
  IF dec.status # OK
  THEN [status |-> dec.status, key |-> key]
  ELSE [status |-> OK,
        key |-> AppendDocHybridTime(
                  [hybrid_time |-> hybrid_time, write_id |-> kMaxWriteId],
                  dec.prefix)]

\* --------------------------------------------------------- SubDocKey codec
NoKey == [path |-> <<>>, hybrid_time |-> -1, write_id |-> -1]

\* SubDocKey::Encode(include_hybrid_time).
SubDocKeyEncode(k, include_hybrid_time) ==
  IF include_hybrid_time
  THEN AppendDocHybridTime(
         [hybrid_time |-> k.hybrid_time, write_id |-> k.write_id], k.path)
  ELSE k.path

\* SubDocKey::FullyDecodeFrom(slice) with require_hybrid_time = true.
FullyDecodeFrom(key) ==
  LET dec == DecodeFromEnd(key) IN
  IF dec.status # OK \/ dec.prefix = <<>>
       \/ \E i \in 1..Len(dec.prefix) : dec.prefix[i] = kHybridTime
  THEN [status |-> Corruption, key |-> NoKey]
  ELSE [status |-> OK,
        key |-> [path |-> dec.prefix,
                 hybrid_time |-> dec.dht.hybrid_time,
                 write_id |-> dec.dht.write_id]]

\* SubDocKey::FullyDecodeFrom(slice) with require_hybrid_time = false: a key
\* may end without a timestamp field.
FullyDecodeFromOptional(key) ==
  IF key # <<>> /\ \A i \in 1..Len(key) : key[i] # kHybridTime
  THEN [status |-> OK, has_hybrid_time |-> FALSE]
  ELSE [status |-> FullyDecodeFrom(key).status, has_hybrid_time |-> TRUE]

\* ------------------------------------------------------------ Value codec
NoValue == [type |-> -1, payload |-> -1]
TombstoneValue == [type |-> kTombstone, payload |-> -1]

\* The stored bytes of a value: an optional TTL field, then the payload.
ValueEncode(ttl, payload) ==
  (IF ttl = kMaxTtl THEN <<>> ELSE <<kTtl, ttl>>) \o <<kString, payload>>

\* Value::DecodeTTL(&slice, &ttl): strip the optional leading TTL field.
DecodeTTL(value) ==
  IF Len(value) >= 1 /\ value[1] = kTtl
  THEN IF Len(value) >= 2
       THEN [status |-> OK, ttl |-> value[2], rest |-> SubSeq(value, 3, Len(value))]
       ELSE [status |-> Corruption, ttl |-> kMaxTtl, rest |-> value]
  ELSE [status |-> OK, ttl |-> kMaxTtl, rest |-> value]

\* Value::Decode(slice) of the bytes that follow the TTL field.
ValueDecode(rest) ==
  IF rest = <<kTombstone>>
  THEN [status |-> OK, value |-> TombstoneValue]
  ELSE IF Len(rest) = 2 /\ rest[1] = kString
  THEN [status |-> OK, value |-> [type |-> kString, payload |-> rest[2]]]
  ELSE [status |-> Corruption, value |-> NoValue]

\* server::HybridClock::AddPhysicalTimeToHybridTime(ht, ttl).
AddPhysicalTimeToHybridTime(ht, ttl) == ht + ttl

\* ------------------------------------------------- ordered engine iterator
\* A position is an index into the sorted entries; 0 is "not valid".
IterValid(pos) == pos # 0

IterKey(d, pos) == d[pos].key

IterValue(d, pos) == d[pos].value

\* rocksdb::Iterator::SeekToFirst.
IterSeekToFirst(d) == IF Len(d) > 0 THEN 1 ELSE 0

\* rocksdb::Iterator::Seek(target): the first entry with key >= target.
IterSeek(d, target) ==
  LET at == {i \in 1..Len(d) : Compare(d[i].key, target) >= 0} IN
  IF at = {} THEN 0 ELSE CHOOSE i \in at : \A j \in at : i <= j

\* rocksdb::Iterator::Next.
IterNext(d, pos) == IF pos < Len(d) THEN pos + 1 ELSE 0

\* ------------------------------------------------------ PerformRocksDBSeek
\* The for loop of PerformRocksDBSeek: nexts counts the loop variable, nc and
\* sc the Next() and Seek() calls issued so far.
\* The debug-build check of the seek key at the head of PerformRocksDBSeek:
\* the DCHECK fails for a key that fully decodes with a timestamp whose
\* write id is not kMaxWriteId and which is not kMin.  The key is not changed.
SeekKeyDcheckFails(seek_key) ==
  LET dht == DecodeFromEnd(seek_key) IN
  /\ dht.status = OK
  /\ dht.dht.write_id # kMaxWriteId
  /\ dht.dht # DocHybridTime_kMin
  /\ FullyDecodeFromOptional(seek_key).status = OK
  /\ FullyDecodeFromOptional(seek_key).has_hybrid_time

RECURSIVE NextsLoop(_, _, _, _, _, _, _)

\* Mutant: the last round of the loop steps once more instead of seeking.
NextsLoop_StepsInsteadOfSeek(d, pos, seek_key, max, nexts, nc, sc) ==
  IF ~(nexts <= max)
  THEN [pos |-> pos, nexts |-> nc, seeks |-> sc, firsts |-> 0, flagged |-> FALSE]
  ELSE IF ~IterValid(pos) \/ Compare(IterKey(d, pos), seek_key) >= 0
  THEN [pos |-> pos, nexts |-> nc, seeks |-> sc, firsts |-> 0, flagged |-> FALSE]
  ELSE NextsLoop(d, IterNext(d, pos), seek_key, max, nexts + 1, nc + 1, sc)

NextsLoop(d, pos, seek_key, max, nexts, nc, sc) ==
  IF ~(nexts <= max)
  THEN [pos |-> pos, nexts |-> nc, seeks |-> sc, firsts |-> 0, flagged |-> FALSE]
  ELSE IF ~IterValid(pos) \/ Compare(IterKey(d, pos), seek_key) >= 0
  THEN [pos |-> pos, nexts |-> nc, seeks |-> sc, firsts |-> 0, flagged |-> FALSE]
  ELSE IF nexts < max
  THEN NextsLoop(d, IterNext(d, pos), seek_key, max, nexts + 1, nc + 1, sc)
  ELSE NextsLoop(d, IterSeek(d, seek_key), seek_key, max, nexts + 1, nc, sc + 1)

\* Mutant: an iterator that is already past seek_key is left where it is.
PerformRocksDBSeek_NoBackwardSeek(d, pos, seek_key, max) ==
  IF Len(seek_key) = 0
  THEN [pos |-> IterSeekToFirst(d), nexts |-> 0, seeks |-> 0, firsts |-> 1, flagged |-> FALSE]
  ELSE IF ~IterValid(pos)
  THEN [pos |-> IterSeek(d, seek_key), nexts |-> 0, seeks |-> 1, firsts |-> 0, flagged |-> FALSE]
  ELSE NextsLoop(d, pos, seek_key, max, 0, 0, 0)

\* Mutant: the native Seek is issued directly when the iterator is invalid or
\* at or before seek_key, and stepping is left to an iterator past seek_key.
PerformRocksDBSeek_SeeksAtOrBefore(d, pos, seek_key, max) ==
  IF Len(seek_key) = 0
  THEN [pos |-> IterSeekToFirst(d), nexts |-> 0, seeks |-> 0, firsts |-> 1, flagged |-> FALSE]
  ELSE IF ~IterValid(pos) \/ Compare(IterKey(d, pos), seek_key) <= 0
  THEN [pos |-> IterSeek(d, seek_key), nexts |-> 0, seeks |-> 1, firsts |-> 0, flagged |-> FALSE]
  ELSE NextsLoop(d, pos, seek_key, max, 0, 0, 0)

\* Mutant: an empty seek_key is handled like any other key, so a valid
\* iterator is never before it and stays where it is.
PerformRocksDBSeek_EmptyKeyAsAnyKey(d, pos, seek_key, max) ==
  IF ~IterValid(pos)
  THEN [pos |-> IterSeek(d, seek_key), nexts |-> 0, seeks |-> 1, firsts |-> 0, flagged |-> FALSE]
  ELSE NextsLoop(d, pos, seek_key, max, 0, 0, 0)

\* PerformRocksDBSeek(iter, seek_key) under FLAGS_max_nexts_to_avoid_seek = max:
\* the new position and the engine calls made.
PerformRocksDBSeek(d, pos, seek_key, max) ==
  LET moved ==
        IF Len(seek_key) = 0
        THEN [pos |-> IterSeekToFirst(d), nexts |-> 0, seeks |-> 0, firsts |-> 1,
              flagged |-> FALSE]
        ELSE IF ~IterValid(pos) \/ Compare(IterKey(d, pos), seek_key) > 0
        THEN [pos |-> IterSeek(d, seek_key), nexts |-> 0, seeks |-> 1, firsts |-> 0,
              flagged |-> FALSE]
        ELSE NextsLoop(d, pos, seek_key, max, 0, 0, 0)
  IN [moved EXCEPT !.flagged = SeekKeyDcheckFails(seek_key)]

\* The ROCKSDB_SEEK macro: PerformRocksDBSeek with the call site's file/line.
ROCKSDB_SEEK(d, pos, seek_key, max) == PerformRocksDBSeek(d, pos, seek_key, max)

\* ------------------------------------------------------------- SeekForward
\* Mutant: the guard is dropped and every call seeks.
SeekForward_AlwaysSeeks(d, pos, slice, max) == ROCKSDB_SEEK(d, pos, slice, max)

\* Mutant: only the order of the keys is tested, so an iterator that is not
\* valid is sought as well.
SeekForward_SeeksWhenInvalid(d, pos, slice, max) ==
  IF IterValid(pos) /\ Compare(IterKey(d, pos), slice) >= 0
  THEN [pos |-> pos, nexts |-> 0, seeks |-> 0, firsts |-> 0, flagged |-> FALSE]
  ELSE ROCKSDB_SEEK(d, pos, slice, max)

\* SeekForward(slice, iter): the new position and the engine calls made.
SeekForward(d, pos, slice, max) ==
  IF ~IterValid(pos) \/ Compare(IterKey(d, pos), slice) >= 0
  THEN [pos |-> pos, nexts |-> 0, seeks |-> 0, firsts |-> 0, flagged |-> FALSE]
  ELSE ROCKSDB_SEEK(d, pos, slice, max)

\* ---------------------------------------------------------- SeekPastSubKey
\* Mutant: the seek goes to the encoded key itself, with no kMin appended.
SeekPastSubKey_NoMinTime(d, pos, sub_doc_key, max) ==
  SeekForward(d, pos, SubDocKeyEncode(sub_doc_key, FALSE), max)

\* Mutant: the key's own time is appended instead of kMin.
SeekPastSubKey_KeepsHybridTime(d, pos, sub_doc_key, max) ==
  SeekForward(d, pos, SubDocKeyEncode(sub_doc_key, TRUE), max)

\* SeekPastSubKey(sub_doc_key, iter): the key is encoded without its hybrid
\* time, DocHybridTime::kMin is appended, and the iterator seeks forward.
SeekPastSubKey(d, pos, sub_doc_key, max) ==
  SeekForward(d, pos,
              AppendDocHybridTime(DocHybridTime_kMin,
                                  SubDocKeyEncode(sub_doc_key, FALSE)),
              max)

\* ------------------------------------------------------- SeekToValidKvAtTs
\* A result: status, the outputs (NoKey / NoValue when left unmodified), the
\* iterator position at return and the probe keys that were sought.
SeekResult(status, is_found, found_key, found_value, pos, probes) ==
  [status |-> status, is_found |-> is_found, found_key |-> found_key,
   found_value |-> found_value, pos |-> pos, probes |-> probes,
   landed |-> <<>>]

\* Mutant: is_found keeps the value TRUE it was given at entry.
NotFoundResult_KeepsIsFound(pos, probes) ==
  SeekResult(OK, TRUE, NoKey, NoValue, pos, probes)

\* The not-found return: is_found is cleared, the status is OK and found_key
\* and found_value are not written.
NotFoundResult(pos, probes) ==
  SeekResult(OK, FALSE, NoKey, NoValue, pos, probes)

\* Mutant: an expired value is reported as not found.
DecodeFound_ExpiredIsNotFound(d, pos, hybrid_time, probes) ==
  LET fk == FullyDecodeFrom(IterKey(d, pos))
      dt == DecodeTTL(IterValue(d, pos))
      expiry == AddPhysicalTimeToHybridTime(fk.key.hybrid_time, dt.ttl)
  IN
  IF dt.ttl # kMaxTtl /\ hybrid_time > expiry
  THEN SeekResult(OK, FALSE, NoKey, NoValue, pos, probes)
  ELSE SeekResult(OK, TRUE, fk.key, ValueDecode(dt.rest).value, pos, probes)

\* Mutant: a value that fails to decode is reported as a tombstone.
DecodeFound_CorruptionIsTombstone(d, pos, hybrid_time, probes) ==
  LET fk == FullyDecodeFrom(IterKey(d, pos))
      dt == DecodeTTL(IterValue(d, pos))
      expiry == AddPhysicalTimeToHybridTime(fk.key.hybrid_time, dt.ttl)
      dv == ValueDecode(dt.rest)
  IN
  IF fk.status # OK
  THEN SeekResult(fk.status, TRUE, NoKey, NoValue, pos, probes)
  ELSE IF dt.status # OK \/ dv.status # OK
  THEN SeekResult(OK, TRUE, fk.key, TombstoneValue, pos, probes)
  ELSE IF dt.ttl # kMaxTtl /\ hybrid_time > expiry
  THEN SeekResult(OK, TRUE,
                  [fk.key EXCEPT !.hybrid_time = expiry, !.write_id = kMaxWriteId],
                  TombstoneValue, pos, probes)
  ELSE SeekResult(OK, TRUE, fk.key, dv.value, pos, probes)

\* Mutant: the never-expires sentinel is not tested for; a value without a
\* TTL expires like one with TTL zero.
DecodeFound_SentinelIsZero(d, pos, hybrid_time, probes) ==
  LET fk == FullyDecodeFrom(IterKey(d, pos))
      dt == DecodeTTL(IterValue(d, pos))
      expiry == AddPhysicalTimeToHybridTime(
                  fk.key.hybrid_time, IF dt.ttl = kMaxTtl THEN 0 ELSE dt.ttl)
  IN
  IF hybrid_time > expiry
  THEN SeekResult(OK, TRUE,
                  [fk.key EXCEPT !.hybrid_time = expiry, !.write_id = kMaxWriteId],
                  TombstoneValue, pos, probes)
  ELSE SeekResult(OK, TRUE, fk.key, ValueDecode(dt.rest).value, pos, probes)

\* Mutant: an expired value becomes a tombstone that keeps the write time.
DecodeFound_KeepsWriteTime(d, pos, hybrid_time, probes) ==
  LET fk == FullyDecodeFrom(IterKey(d, pos))
      dt == DecodeTTL(IterValue(d, pos))
      expiry == AddPhysicalTimeToHybridTime(fk.key.hybrid_time, dt.ttl)
  IN
  IF dt.ttl # kMaxTtl /\ hybrid_time > expiry
  THEN SeekResult(OK, TRUE, fk.key, TombstoneValue, pos, probes)
  ELSE SeekResult(OK, TRUE, fk.key, ValueDecode(dt.rest).value, pos, probes)

\* Mutant: a value is already expired at its expiry instant.
DecodeFound_ExpiredAtExpiry(d, pos, hybrid_time, probes) ==
  LET fk == FullyDecodeFrom(IterKey(d, pos))
      dt == DecodeTTL(IterValue(d, pos))
      expiry == AddPhysicalTimeToHybridTime(fk.key.hybrid_time, dt.ttl)
  IN
  IF dt.ttl # kMaxTtl /\ hybrid_time >= expiry
  THEN SeekResult(OK, TRUE,
                  [fk.key EXCEPT !.hybrid_time = expiry, !.write_id = kMaxWriteId],
                  TombstoneValue, pos, probes)
  ELSE SeekResult(OK, TRUE, fk.key, ValueDecode(dt.rest).value, pos, probes)

\* Mutant: a failed decode of the entry clears is_found before it returns.
DecodeFound_ErrorClearsIsFound(d, pos, hybrid_time, probes) ==
  LET value == IterValue(d, pos)
      fk == FullyDecodeFrom(IterKey(d, pos))
      dt == DecodeTTL(value)
      expiry == AddPhysicalTimeToHybridTime(fk.key.hybrid_time, dt.ttl)
      dv == ValueDecode(dt.rest)
  IN
  IF fk.status # OK
  THEN SeekResult(fk.status, FALSE, NoKey, NoValue, pos, probes)
  ELSE IF dt.status # OK
  THEN SeekResult(dt.status, FALSE, fk.key, NoValue, pos, probes)
  ELSE IF dt.ttl # kMaxTtl /\ hybrid_time > expiry
  THEN SeekResult(OK, TRUE,
                  [fk.key EXCEPT !.hybrid_time = expiry, !.write_id = kMaxWriteId],
                  TombstoneValue, pos, probes)
  ELSE IF dv.status # OK
  THEN SeekResult(dv.status, FALSE, fk.key, NoValue, pos, probes)
  ELSE SeekResult(OK, TRUE, fk.key, dv.value, pos, probes)

\* The code after the loop: decode the key and the value under the iterator,
\* and turn an expired value into a tombstone written at its expiry.
DecodeFound(d, pos, hybrid_time, probes) ==
  LET value == IterValue(d, pos)
      fk == FullyDecodeFrom(IterKey(d, pos))
      dt == DecodeTTL(value)
      expiry == AddPhysicalTimeToHybridTime(fk.key.hybrid_time, dt.ttl)
      dv == ValueDecode(dt.rest)
  IN
  IF fk.status # OK
  THEN SeekResult(fk.status, TRUE, NoKey, NoValue, pos, probes)
  ELSE IF dt.status # OK
  THEN SeekResult(dt.status, TRUE, fk.key, NoValue, pos, probes)
  ELSE IF dt.ttl # kMaxTtl /\ hybrid_time > expiry
  THEN SeekResult(OK, TRUE,
                  [fk.key EXCEPT !.hybrid_time = expiry, !.write_id = kMaxWriteId],
                  TombstoneValue, pos, probes)
  ELSE IF dv.status # OK
  THEN SeekResult(dv.status, TRUE, fk.key, NoValue, pos, probes)
  ELSE SeekResult(OK, TRUE, fk.key, dv.value, pos, probes)

\* Mutant: whatever the seek lands on is taken as the answer.
IsVisibleAt_Always(dht, hybrid_time) == TRUE

\* The test that ends the loop: the key under the iterator is not newer than
\* the read time (write ids are not compared).
IsVisibleAt(dht, hybrid_time) == dht.hybrid_time <= hybrid_time

\* The result of the iterations that follow, with the place where this
\* iteration's ROCKSDB_SEEK left the iterator put in front.
Landing(p, res) == [res EXCEPT !.landed = <<p>> \o res.landed]

\* The while (true) loop of SeekToValidKvAtTs.
RECURSIVE SeekLoop(_, _, _, _, _, _, _)

\* Mutant: a key newer than the read time ends the search as not found.
SeekLoop_StopsAtNewer(d, pos, search_key, hybrid_time, seek_key_bytes, max, probes) ==
  LET p == ROCKSDB_SEEK(d, pos, seek_key_bytes, max).pos
      sought == Append(probes, seek_key_bytes)
  IN
  IF ~IterValid(p) \/ ~starts_with(IterKey(d, p), search_key)
  THEN Landing(p, NotFoundResult(p, sought))
  ELSE LET ht_from_found_key == DecodeFromEnd(IterKey(d, p)) IN
       IF ht_from_found_key.status # OK
       THEN Landing(p, SeekResult(ht_from_found_key.status, TRUE, NoKey, NoValue,
                                  p, sought))
       ELSE IF IsVisibleAt(ht_from_found_key.dht, hybrid_time)
       THEN Landing(p, DecodeFound(d, p, hybrid_time, sought))
       ELSE Landing(p, NotFoundResult(p, sought))

\* Mutant: the first time a key turns out newer than the read time, the
\* same probe key is sought again before it is rewritten.
SeekLoop_RepeatsProbe(d, pos, search_key, hybrid_time, seek_key_bytes, max, probes) ==
  LET p == ROCKSDB_SEEK(d, pos, seek_key_bytes, max).pos
      sought == Append(probes, seek_key_bytes)
  IN
  IF ~IterValid(p) \/ ~starts_with(IterKey(d, p), search_key)
  THEN Landing(p, NotFoundResult(p, sought))
  ELSE LET ht_from_found_key == DecodeFromEnd(IterKey(d, p)) IN
       IF ht_from_found_key.status # OK
       THEN Landing(p, SeekResult(ht_from_found_key.status, TRUE, NoKey, NoValue,
                                  p, sought))
       ELSE IF IsVisibleAt(ht_from_found_key.dht, hybrid_time)
       THEN Landing(p, DecodeFound(d, p, hybrid_time, sought))
       ELSE LET rep == ReplaceLastHybridTimeForSeek(IterKey(d, p), hybrid_time) IN
            IF rep.status # OK
            THEN Landing(p, SeekResult(rep.status, TRUE, NoKey, NoValue, p, sought))
            ELSE IF probes = <<>>
            THEN Landing(p, SeekLoop(d, p, search_key, hybrid_time, seek_key_bytes,
                                     max, sought))
            ELSE Landing(p, SeekLoop(d, p, search_key, hybrid_time, rep.key, max,
                                     sought))

SeekLoop(d, pos, search_key, hybrid_time, seek_key_bytes, max, probes) ==
  LET p == ROCKSDB_SEEK(d, pos, seek_key_bytes, max).pos
      sought == Append(probes, seek_key_bytes)
  IN
  IF ~IterValid(p) \/ ~starts_with(IterKey(d, p), search_key)
  THEN Landing(p, NotFoundResult(p, sought))
  ELSE LET ht_from_found_key == DecodeFromEnd(IterKey(d, p)) IN
       IF ht_from_found_key.status # OK
       THEN Landing(p, SeekResult(ht_from_found_key.status, TRUE, NoKey, NoValue,
                                  p, sought))
       ELSE IF IsVisibleAt(ht_from_found_key.dht, hybrid_time)
       THEN Landing(p, DecodeFound(d, p, hybrid_time, sought))
       ELSE LET rep == ReplaceLastHybridTimeForSeek(IterKey(d, p), hybrid_time) IN
            IF rep.status # OK
            THEN Landing(p, SeekResult(rep.status, TRUE, NoKey, NoValue, p, sought))
            ELSE Landing(p, SeekLoop(d, p, search_key, hybrid_time, rep.key, max,
                                     sought))

\* Mutant: the probe excludes the read time itself.
SeekToValidKvAtTs_ExclusiveReadTime(d, pos, search_key, hybrid_time, max) ==
  SeekLoop(d, pos, search_key, hybrid_time,
           AppendDocHybridTime(
             [hybrid_time |-> hybrid_time - 1, write_id |-> kMaxWriteId], search_key),
           max, <<>>)

\* Mutant: the probe is built with write id 0 instead of kMaxWriteId.
SeekToValidKvAtTs_ZeroWriteId(d, pos, search_key, hybrid_time, max) ==
  SeekLoop(d, pos, search_key, hybrid_time,
           AppendDocHybridTime(
             [hybrid_time |-> hybrid_time, write_id |-> 0], search_key),
           max, <<>>)

\* SeekToValidKvAtTs(iter, search_key, hybrid_time, &found_key, &is_found,
\* &found_value).
SeekToValidKvAtTs(d, pos, search_key, hybrid_time, max) ==
  SeekLoop(d, pos, search_key, hybrid_time,
           AppendDocHybridTime(
             [hybrid_time |-> hybrid_time, write_id |-> kMaxWriteId], search_key),
           max, <<>>)

\* ---------------------------------------------------- IntentAwareIterator
Txns == 1..MaxTxns
\* An absent TransactionOperationContextOpt.
NoTxn == 0

\* A visibility rule: an intent of the read's own transaction is visible; an
\* intent of another transaction is visible only if that transaction has a
\* commit record whose time is <= high_ht.
IntentVisible(i, txn_op_context, high_ht, commits) ==
  IF txn_op_context # NoTxn /\ i.txn = txn_op_context
  THEN TRUE
  ELSE commits[i.txn] # 0 /\ commits[i.txn] <= high_ht

\* The time a visible intent is surfaced at: the read's own intents at the
\* read's time, another transaction's at its commit time.
IntentDocHt(i, txn_op_context, high_ht, commits) ==
  IF txn_op_context # NoTxn /\ i.txn = txn_op_context
  THEN [hybrid_time |-> high_ht, write_id |-> kMaxWriteId]
  ELSE [hybrid_time |-> commits[i.txn], write_id |-> i.write_id]

\* The set as a sequence in byte order of the keys.
RECURSIVE SortByKey(_)
SortByKey(S) ==
  IF S = {} THEN <<>>
  ELSE LET m == CHOOSE e \in S : \A f \in S : Compare(e.key, f.key) <= 0 IN
       <<m>> \o SortByKey(S \ {m})

\* The intent cursor's view: the visible intents as entries at their surfaced
\* time; of the read's own intents on one key only the latest.
IntentView(ints, commits, it) ==
  SortByKey(
    {[key |-> AppendDocHybridTime(IntentDocHt(i, it.txn, it.high_ht, commits), i.path),
      txn |-> i.txn, id |-> i.id] :
       i \in {j \in ints :
                /\ IntentVisible(j, it.txn, it.high_ht, commits)
                /\ j.txn = it.txn =>
                     ~\E l \in ints : /\ l.txn = j.txn
                                      /\ l.path = j.path
                                      /\ l.hybrid_time > j.hybrid_time}})

\* The regular cursor's view: the committed entries not newer than high_ht.
RegularView(d, it) ==
  LET kept == SelectSeq(d, LAMBDA e : DecodeFromEnd(e.key).dht.hybrid_time <= it.high_ht) IN
  [n \in 1..Len(kept) |->
     [key |-> kept[n].key, txn |-> NoTxn, id |-> kept[n].value[Len(kept[n].value)]]]

NoEntry == [key |-> <<>>, txn |-> NoTxn, id |-> 0]

\* IntentAwareIterator::valid / key / value: the lesser of the two cursors.
IACurrent(d, ints, commits, it) ==
  LET rv == RegularView(d, it)
      iv == IntentView(ints, commits, it)
  IN
  IF ~it.open \/ (it.reg = 0 /\ it.int = 0)
  THEN [valid |-> FALSE, from |-> "none", entry |-> NoEntry]
  ELSE IF it.int = 0
  THEN [valid |-> TRUE, from |-> "regular", entry |-> rv[it.reg]]
  ELSE IF it.reg = 0
  THEN [valid |-> TRUE, from |-> "intent", entry |-> iv[it.int]]
  ELSE IF Compare(rv[it.reg].key, iv[it.int].key) <= 0
  THEN [valid |-> TRUE, from |-> "regular", entry |-> rv[it.reg]]
  ELSE [valid |-> TRUE, from |-> "intent", entry |-> iv[it.int]]

\* IntentAwareIterator::Seek(key): both cursors seek.
IASeek(d, ints, commits, it, key) ==
  [it EXCEPT !.reg = IterSeek(RegularView(d, it), key),
             !.int = IterSeek(IntentView(ints, commits, it), key)]

\* Advance the cursor that supplies the current entry.
IANext(d, ints, commits, it) ==
  LET cur == IACurrent(d, ints, commits, it) IN
  IF cur.from = "regular"
  THEN [it EXCEPT !.reg = IterNext(RegularView(d, it), it.reg)]
  ELSE IF cur.from = "intent"
  THEN [it EXCEPT !.int = IterNext(IntentView(ints, commits, it), it.int)]
  ELSE it

NoIterator ==
  [open |-> FALSE, high_ht |-> 0, txn |-> NoTxn, reg |-> 0, int |-> 0,
   op |-> "none", sought |-> <<>>, surfaced |-> {},
   read_txn |-> NoTxn, read_time |-> 0]

\* IntentAwareIterator(rocksdb, read_opts, high_ht, txn_op_context).
IntentAwareIteratorNew(high_ht, txn_op_context) ==
  [NoIterator EXCEPT !.open = TRUE, !.high_ht = high_ht, !.txn = txn_op_context]

\* Mutant: the transaction context is not handed to the iterator.
CreateIntentAwareIterator_DropsContext(txn_op_context, high_ht) ==
  IntentAwareIteratorNew(high_ht, NoTxn)

\* Mutant: the iterator is built without the caller's upper bound.
CreateIntentAwareIterator_Unbounded(txn_op_context, high_ht) ==
  IntentAwareIteratorNew(kMaxHybridTime, txn_op_context)

\* Mutant: the iterator is built with a transaction context of its own.
CreateIntentAwareIterator_FixedContext(txn_op_context, high_ht) ==
  IntentAwareIteratorNew(high_ht, 1)

\* Mutant: the iterator is built with a bound one tick after the caller's.
CreateIntentAwareIterator_LaterBound(txn_op_context, high_ht) ==
  IntentAwareIteratorNew(high_ht + 1, txn_op_context)

\* CreateIntentAwareIterator(rocksdb, ..., txn_op_context, high_ht, ...).
CreateIntentAwareIterator(txn_op_context, high_ht) ==
  IntentAwareIteratorNew(high_ht, txn_op_context)

\* ------------------------------------------------------ PlainBlockDecoder
NotFound == "NotFound"

\* A block as the decoder is given it: whether the bytes hold a whole header,
\* the two header fields, and the elements that follow.
Block(has_header, num_elems, ordinal_pos_base, elems) ==
  [has_header |-> has_header, num_elems |-> num_elems,
   ordinal_pos_base |-> ordinal_pos_base, elems |-> elems]

\* kPlainBlockHeaderSize = sizeof(uint32_t) * 2.
kPlainBlockHeaderSize == 8
\* size_of_type of a four-byte element type.
size_of_type == 4
\* The number of values of uint32_t, scaled down from 2^32: unsigned 32-bit
\* arithmetic is arithmetic modulo this number.
kUint32Modulus == 64

\* data_.size(): a slice too short for a header has no header at all here;
\* otherwise it is the header and whole elements.
SliceSize(slice) ==
  IF slice.has_header
  THEN kPlainBlockHeaderSize + Len(slice.elems) * size_of_type
  ELSE 0

\* No decoder has been constructed.
NoDecoder ==
  [constructed |-> FALSE, data_ |-> Block(FALSE, 0, 0, <<>>), parsed_ |-> FALSE,
   num_elems_ |-> 0, ordinal_pos_base_ |-> 0, cur_idx_ |-> 0]

\* PlainBlockDecoder(slice).
PlainBlockDecoderNew(slice) ==
  [constructed |-> TRUE, data_ |-> slice, parsed_ |-> FALSE,
   num_elems_ |-> 0, ordinal_pos_base_ |-> 0, cur_idx_ |-> 0]

\* SeekToPositionInBlock(pos).
SeekToPositionInBlock(dec, pos) ==
  IF dec.num_elems_ = 0 THEN dec ELSE [dec EXCEPT !.cur_idx_ = pos]

\* ParseHeader(): the status and the decoder afterwards.  The product
\* num_elems_ * size_of_type is computed in uint32_t.
ParseHeader(dec) ==
  IF SliceSize(dec.data_) < kPlainBlockHeaderSize
  THEN [status |-> Corruption, dec |-> dec]
  ELSE LET read == [dec EXCEPT !.num_elems_ = dec.data_.num_elems,
                               !.ordinal_pos_base_ = dec.data_.ordinal_pos_base]
       IN
       IF SliceSize(dec.data_) #
            kPlainBlockHeaderSize + ((read.num_elems_ * size_of_type) % kUint32Modulus)
       THEN [status |-> Corruption, dec |-> read]
       ELSE [status |-> OK,
             dec |-> SeekToPositionInBlock([read EXCEPT !.parsed_ = TRUE], 0)]

\* Decode<CppType>(&data_[kPlainBlockHeaderSize + idx * size_of_type]).
Decode(dec, idx) == dec.data_.elems[idx + 1]

\* The while loop of SeekAtOrAfterValue over uint32_t left and right.  Their
\* sum is at most twice the element count of a block, far below 2^32 for the
\* blocks here, so the additions are exact.
RECURSIVE SeekLoopInBlock(_, _, _, _)
SeekLoopInBlock(dec, target, left, right) ==
  IF left = right
  THEN [exact_match |-> FALSE, idx |-> left]
  ELSE LET mid == (left + right) \div 2
           mid_key == Decode(dec, mid)
       IN
       IF mid_key < target
       THEN SeekLoopInBlock(dec, target, mid + 1, right)
       ELSE IF mid_key > target
       THEN SeekLoopInBlock(dec, target, left, mid)
       ELSE [exact_match |-> TRUE, idx |-> mid]

\* Mutant: the end of the block is not reported.
SeekAtOrAfterValue_NeverNotFound(dec, target) ==
  LET r == SeekLoopInBlock(dec, target, 0, dec.num_elems_) IN
  [status |-> OK, exact_match |-> r.exact_match,
   dec |-> [dec EXCEPT !.cur_idx_ = r.idx]]

\* SeekAtOrAfterValue(value, &exact_match): the status, *exact_match and
\* the decoder afterwards.
SeekAtOrAfterValue(dec, target) ==
  LET r == SeekLoopInBlock(dec, target, 0, dec.num_elems_) IN
  [status |-> IF ~r.exact_match /\ r.idx = dec.num_elems_ THEN NotFound ELSE OK,
   exact_match |-> r.exact_match,
   dec |-> [dec EXCEPT !.cur_idx_ = r.idx]]

\* CopyNextValues(&n, dst): the number of values copied, the values and the
\* decoder afterwards.
CopyNextValues(dec, n) ==
  IF n = 0 \/ dec.cur_idx_ >= dec.num_elems_
  THEN [n |-> 0, values |-> <<>>, dec |-> dec]
  ELSE LET max_fetch == IF n <= dec.num_elems_ - dec.cur_idx_
                        THEN n ELSE dec.num_elems_ - dec.cur_idx_
       IN [n |-> max_fetch,
           values |-> [i \in 1..max_fetch |-> Decode(dec, dec.cur_idx_ + i - 1)],
           dec |-> [dec EXCEPT !.cur_idx_ = dec.cur_idx_ + max_fetch]]

\* Count().
Count(dec) == dec.num_elems_

\* ------------------------------------------------------- TabletFlushStats
\* std::numeric_limits<uint64_t>::max(), which is HybridTime::kMax, scaled down.
kUint64Max == 15

Writers == 1..MaxWriters
WriteTimes == 1..MaxWriteTime

\* A thread outside AboutToWriteToDb.
IdleWriter == [pc |-> "idle", curr_val |-> 0, prev_val |-> 0]

\* A new TabletFlushStats (num_flushes_{0}, oldest_write_in_memstore_{max})
\* with no call in progress.  History: the times given to the calls issued
\* since the latest reset, whether a call was in progress at that reset, and
\* the number of OnFlushScheduled calls begun.
TabletFlushStatsNew ==
  [oldest_write_in_memstore_ |-> kUint64Max,
   num_flushes_ |-> 0,
   writer |-> [w \in Writers |-> IdleWriter],
   flusher |-> "idle",
   issued |-> {},
   straddled |-> FALSE,
   flush_calls |-> 0]

\* Mutant: the exchange stores the new value whatever the current one is.
compare_exchange_BlindStore(value, expected, desired) ==
  [ok |-> TRUE, value |-> desired, expected |-> expected]

\* std::atomic::compare_exchange_weak(expected, desired) when it does not
\* fail spuriously: the new value of the atomic, and of expected.
compare_exchange(value, expected, desired) ==
  IF value = expected
  THEN [ok |-> TRUE, value |-> desired, expected |-> expected]
  ELSE [ok |-> FALSE, value |-> value, expected |-> value]

\* oldest_write_in_memstore().
oldest_write_in_memstore(stats) == stats.oldest_write_in_memstore_

\* num_flushes().
num_flushes(stats) == stats.num_flushes_

\* --------------------------------------------------- UpdateTxnOperation
\* consensus::DriverType.
LEADER == "LEADER"
REPLICA == "REPLICA"
\* ProcessingMode::NON_LEADER.
NON_LEADER == "NON_LEADER"

\* A null request_ pointer, and the requests it can point to.
NullRequest == 0
Requests == 1..MaxRequests
\* No hybrid time is assigned to the operation state (has_hybrid_time() is
\* false), and the hybrid times there are.
NoHybridTime == 0
OpTimes == 1..MaxOpTime

\* No call on the operation is outstanding.
NoOpCall == [op |-> "none", result |-> <<>>]
\* Nothing was given to ProcessReplicated.
NoReplicatedData ==
  [mode |-> "none", request |-> NullRequest, hybrid_time |-> NoHybridTime]

\* No operation exists.  An operation has its driver type, its state (request_
\* and hybrid time) and, as history, where it is in its life, the hybrid time
\* it was created with, the clock value Start read, the data Apply passed on
\* and the latest call.
NoOperation ==
  [phase |-> "none", type |-> LEADER, request_ |-> NullRequest,
   hybrid_time |-> NoHybridTime, carried |-> NoHybridTime,
   now |-> NoHybridTime, replicated |-> NoReplicatedData, call |-> NoOpCall]

\* OperationState::has_hybrid_time().
has_hybrid_time(state) == state.hybrid_time # NoHybridTime

\* Mutant: Start assigns the clock's time whether or not one is assigned.
UpdateTxnOperation_Start_AlwaysAssigns(op, now) == [op EXCEPT !.hybrid_time = now]

\* UpdateTxnOperation::Start() when the clock's Now() is now.
UpdateTxnOperation_Start(op, now) ==
  IF ~has_hybrid_time(op) THEN [op EXCEPT !.hybrid_time = now] ELSE op

\* UpdateTxnOperation::mode().
UpdateTxnOperation_mode(op) == IF op.type = LEADER THEN LEADER ELSE NON_LEADER

\* UpdateTxnOperation::Apply(): the ReplicatedData given to
\* TransactionCoordinator::ProcessReplicated.
UpdateTxnOperation_Apply(op) ==
  [mode |-> UpdateTxnOperation_mode(op), request |-> op.request_,
   hybrid_time |-> op.hybrid_time]

\* TransactionStatePB::ShortDebugString().
ShortDebugString(request) == <<"transaction_state", request>>

\* Format("UpdateTxnOperationState [$0]", arg).
FormatState(arg) == <<"UpdateTxnOperationState", arg>>

\* What a call through a null request_ pointer can do: the process is
\* stopped by a signal, or some bytes are formatted.
NullDereference == {<<"SIGSEGV">>, FormatState(<<"garbage">>)}

\* UpdateTxnOperationState::ToString(): the strings the call can return (or
\* the signal that ends it).  The conditional takes "(none)" when request_ is
\* set and calls through request_ when it is null.
UpdateTxnOperationState_ToString(state) ==
  IF state.request_ # NullRequest
  THEN {FormatState(<<"(none)">>)}
  ELSE NullDereference

\* ---------------------------------------------------------------- state
VARIABLES
  db,           \* the regular key space: entries sorted by encoded key
  clock,        \* the hybrid time of the latest write batch
  write_id,     \* the write id of the latest write in that batch
  iter,         \* the position of the read's engine iterator
  writes,       \* history: the logical writes, in the order they were made
  max_nexts,    \* FLAGS_max_nexts_to_avoid_seek
  last,         \* the latest call and what it returned
  intents,      \* the intent key space: the intents written by transactions
  txn_commit,   \* per transaction: the time of its commit record, 0 if none
  ia,           \* the intent-aware iterator of the current read
  decoder,      \* a PlainBlockDecoder and the block it reads
  flush_stats,  \* a TabletFlushStats, the threads that call it and their history
  txn_op        \* an UpdateTxnOperation, its state and the latest call on it

seekvars == <<db, clock, write_id, iter, writes, max_nexts, last>>
intentvars == <<intents, txn_commit, ia>>
tabletvars == <<flush_stats, txn_op>>
vars ==
  <<db, clock, write_id, iter, writes, max_nexts, last, intents, txn_commit, ia,
    decoder, flush_stats, txn_op>>

NoCall ==
  [op |-> "none", key |-> <<>>, hybrid_time |-> 0, pre |-> 0,
   nexts |-> 0, seeks |-> 0, firsts |-> 0, flagged |-> FALSE,
   res |-> SeekResult(OK, FALSE, NoKey, NoValue, 0, <<>>)]

\* The sorted entries with one more entry put at its place.
Insert(d, e) ==
  LET n == Cardinality({i \in 1..Len(d) : Compare(d[i].key, e.key) < 0}) IN
  SubSeq(d, 1, n) \o <<e>> \o SubSeq(d, n + 1, Len(d))

ReadTimes == 0..(clock + MaxTtl + 1)

\* Keys a caller seeks to: nothing, a sub-document prefix, a prefix followed
\* by kMin, "as of T" probes, and keys that name one write of a batch.
SeekKeys ==
  {<<>>} \cup Paths
    \cup {AppendDocHybridTime(DocHybridTime_kMin, p) : p \in Paths}
    \cup {AppendDocHybridTime([hybrid_time |-> t, write_id |-> kMaxWriteId], p) :
            p \in Paths, t \in 0..(clock + 1)}
    \cup {AppendDocHybridTime([hybrid_time |-> 1, write_id |-> 0], p) : p \in Paths}

Init ==
  /\ db = <<>>
  /\ clock = 0
  /\ write_id = 0
  /\ iter = 0
  /\ writes = <<>>
  /\ max_nexts \in 0..MaxNexts
  /\ last = NoCall
  /\ intents = {}
  /\ txn_commit = [t \in Txns |-> 0]
  /\ ia = NoIterator
  /\ decoder = NoDecoder
  /\ flush_stats = TabletFlushStatsNew
  /\ txn_op = NoOperation

\* A write of one (SubDocKey, DocHybridTime, Value): in a new batch at the next
\* hybrid time, or as the next write of the latest batch.  Reads that follow
\* use a new iterator.
Write(path, ttl, new_batch, limit) ==
  /\ last.op = "none"
  /\ ~ia.open
  /\ Len(db) < limit
  /\ new_batch \/ (clock > 0 /\ write_id < kMaxWriteId - 1)
  /\ LET ht == IF new_batch THEN clock + 1 ELSE clock
         wid == IF new_batch THEN 0 ELSE write_id + 1
         e == [key |-> SubDocKeyEncode(
                         [path |-> path, hybrid_time |-> ht, write_id |-> wid], TRUE),
               value |-> ValueEncode(ttl, Len(db) + 1)]
     IN /\ ht <= kMaxHybridTime
        /\ db' = Insert(db, e)
        /\ clock' = ht
        /\ write_id' = wid
        /\ writes' = Append(writes, [path |-> path, hybrid_time |-> ht,
                                     write_id |-> wid, ttl |-> ttl])
  /\ iter' = 0
  /\ UNCHANGED <<max_nexts, last, intentvars, decoder, tabletvars>>

CallSeekToValidKvAtTs(search_key, hybrid_time) ==
  /\ last.op = "none"
  /\ LET r == SeekToValidKvAtTs(db, iter, search_key, hybrid_time, max_nexts) IN
     /\ iter' = r.pos
     /\ last' = [NoCall EXCEPT !.op = "SeekToValidKvAtTs", !.key = search_key,
                               !.hybrid_time = hybrid_time, !.res = r]
  /\ UNCHANGED <<db, clock, write_id, writes, max_nexts, intentvars, decoder, tabletvars>>

CallPerformRocksDBSeek(seek_key) ==
  /\ last.op = "none"
  /\ LET r == PerformRocksDBSeek(db, iter, seek_key, max_nexts) IN
     /\ iter' = r.pos
     /\ last' = [NoCall EXCEPT !.op = "PerformRocksDBSeek", !.key = seek_key,
                               !.pre = iter, !.nexts = r.nexts, !.seeks = r.seeks,
                               !.firsts = r.firsts,
                               !.flagged = r.flagged]
  /\ UNCHANGED <<db, clock, write_id, writes, max_nexts, intentvars, decoder, tabletvars>>

CallSeekForward(target) ==
  /\ last.op = "none"
  /\ LET r == SeekForward(db, iter, target, max_nexts) IN
     /\ iter' = r.pos
     /\ last' = [NoCall EXCEPT !.op = "SeekForward", !.key = target, !.pre = iter,
                               !.nexts = r.nexts, !.seeks = r.seeks,
                               !.firsts = r.firsts,
                               !.flagged = r.flagged]
  /\ UNCHANGED <<db, clock, write_id, writes, max_nexts, intentvars, decoder, tabletvars>>

\* The sub-document keys given to SeekPastSubKey: their hybrid time is any.
PastSubKeys ==
  [path : Paths, hybrid_time : {1, kMaxHybridTime}, write_id : {0}]

CallSeekPastSubKey(sub_doc_key) ==
  /\ last.op = "none"
  /\ LET r == SeekPastSubKey(db, iter, sub_doc_key, max_nexts) IN
     /\ iter' = r.pos
     /\ last' = [NoCall EXCEPT !.op = "SeekPastSubKey", !.key = sub_doc_key.path,
                               !.hybrid_time = sub_doc_key.hybrid_time,
                               !.pre = iter, !.nexts = r.nexts,
                               !.seeks = r.seeks, !.firsts = r.firsts,
                               !.flagged = r.flagged]
  /\ UNCHANGED <<db, clock, write_id, writes, max_nexts, intentvars, decoder, tabletvars>>

\* The caller takes the outputs of the call and goes on.
Return ==
  /\ last.op # "none"
  /\ last' = NoCall
  /\ UNCHANGED <<db, clock, write_id, iter, writes, max_nexts, intentvars, decoder, tabletvars>>

\* The read path: versions with and without TTL, written in batches, and
\* point-in-time reads of them.
Next ==
  \/ \E p \in Paths, ttl \in {kMaxTtl} \cup 0..MaxTtl, nb \in BOOLEAN :
       Write(p, ttl, nb, MaxVersions)
  \/ \E k \in Paths, t \in ReadTimes : CallSeekToValidKvAtTs(k, t)
  \/ Return

Spec == Init /\ [][Next]_vars

\* Iterator movement: seeks and forward seeks over a key space of plain
\* entries, one write batch each.
NextIter ==
  \/ \E p \in Paths : Write(p, kMaxTtl, TRUE, MaxEntries)
  \/ \E k \in SeekKeys : CallPerformRocksDBSeek(k)
  \/ \E k \in SeekKeys : CallSeekForward(k)
  \/ \E k \in PastSubKeys : CallSeekPastSubKey(k)
  \/ \E k \in Paths, t \in 0..(clock + 1) : CallSeekToValidKvAtTs(k, t)
  \/ Return

SpecIter == Init /\ [][NextIter]_vars

\* The values the flag max_nexts_to_avoid_seek is set to: it is an int32
\* flag, and nothing validates it.
FlagValues == (-MaxNegative)..MaxNexts

\* The flag is set while the process runs.
SetFlag(value) ==
  /\ last.op = "none"
  /\ value # max_nexts
  /\ max_nexts' = value
  /\ UNCHANGED <<db, clock, write_id, iter, writes, last, intentvars, decoder, tabletvars>>

\* Seeks under any value of the flag.
NextFlag ==
  \/ \E p \in Paths : Write(p, kMaxTtl, TRUE, MaxEntries)
  \/ \E v \in FlagValues : SetFlag(v)
  \/ \E k \in SeekKeys : CallPerformRocksDBSeek(k)
  \/ Return

SpecFlag == Init /\ [][NextFlag]_vars

\* A transaction without a commit record writes an intent at the next hybrid
\* time.
WriteIntent(t, path) ==
  /\ last.op = "none"
  /\ ~ia.open
  /\ txn_commit[t] = 0
  /\ t = 1 \/ \E i \in intents : i.txn = t - 1
  /\ Cardinality(intents) < MaxIntents
  /\ clock < kMaxHybridTime
  /\ clock' = clock + 1
  /\ write_id' = 0
  /\ intents' = intents \cup
       {[path |-> path, txn |-> t, hybrid_time |-> clock + 1,
         write_id |-> Cardinality({i \in intents : i.txn = t}),
         id |-> Cardinality(intents) + 1]}
  /\ UNCHANGED <<db, iter, writes, max_nexts, last, txn_commit, ia, decoder, tabletvars>>

\* A transaction that wrote intents gets its commit record at the next hybrid
\* time.
Commit(t) ==
  /\ last.op = "none"
  /\ ~ia.open
  /\ txn_commit[t] = 0
  /\ \E i \in intents : i.txn = t
  /\ clock < kMaxHybridTime
  /\ clock' = clock + 1
  /\ write_id' = 0
  /\ txn_commit' = [txn_commit EXCEPT ![t] = clock + 1]
  /\ UNCHANGED <<db, iter, writes, max_nexts, last, intents, ia, decoder, tabletvars>>

\* A read opens its iterator: with no transaction context or with that of a
\* transaction in flight, as of a read time up to now.
CallCreateIntentAwareIterator(txn_op_context, high_ht) ==
  /\ last.op = "none"
  /\ ~ia.open
  /\ IF txn_op_context = NoTxn THEN TRUE ELSE txn_commit[txn_op_context] = 0
  /\ ia' = [CreateIntentAwareIterator(txn_op_context, high_ht) EXCEPT
              !.op = "Create", !.read_txn = txn_op_context, !.read_time = high_ht]
  /\ UNCHANGED <<seekvars, intents, txn_commit, decoder, tabletvars>>

CallIASeek(key) ==
  /\ ia.open
  /\ LET it == IASeek(db, intents, txn_commit, ia, key)
         cur == IACurrent(db, intents, txn_commit, it)
     IN ia' = [it EXCEPT !.op = "Seek", !.sought = key,
                         !.surfaced = IF cur.valid THEN {cur.entry} ELSE {}]
  /\ UNCHANGED <<seekvars, intents, txn_commit, decoder, tabletvars>>

CallIANext ==
  /\ ia.open
  /\ ia.op \in {"Seek", "Next"}
  /\ IACurrent(db, intents, txn_commit, ia).valid
  /\ LET it == IANext(db, intents, txn_commit, ia)
         cur == IACurrent(db, intents, txn_commit, it)
     IN ia' = [it EXCEPT !.op = "Next",
                         !.surfaced = IF cur.valid THEN @ \cup {cur.entry} ELSE @]
  /\ UNCHANGED <<seekvars, intents, txn_commit, decoder, tabletvars>>

\* The read ends: the caller drops the iterator.
DropIterator ==
  /\ ia.open
  /\ ia' = NoIterator
  /\ UNCHANGED <<seekvars, intents, txn_commit, decoder, tabletvars>>

\* Committed data, intents of transactions in flight and committed, and reads
\* through the intent-aware iterator.
NextIntent ==
  \/ \E p \in IntentPaths : intents = {} /\ Write(p, kMaxTtl, TRUE, MaxRegular)
  \/ \E t \in Txns, p \in IntentPaths : WriteIntent(t, p)
  \/ \E t \in Txns : Commit(t)
  \/ \E c \in {NoTxn} \cup Txns, h \in 0..clock :
       h + MaxReadLag >= clock /\ CallCreateIntentAwareIterator(c, h)
  \/ \E k \in IntentPaths : CallIASeek(k)
  \/ CallIANext
  \/ DropIterator

\* The intent-aware read runs with the flag at its largest modelled value.
InitIntent == Init /\ max_nexts = MaxNexts

SpecIntent == InitIntent /\ [][NextIntent]_vars

\* ------------------------------------------------------------- tablet
\* Row keys of the test table: one DocKey each.
RowKeys == {<<1>>, <<2>>}

TEST_INSERT == "TEST_INSERT"
TEST_UPDATE == "TEST_UPDATE"
TEST_DELETE == "TEST_DELETE"

\* The index of the latest operation written to the row (0 if none).
LatestOp(ws, key) ==
  LET S == {i \in 1..Len(ws) : ws[i].path = key} IN
  IF S = {} THEN 0 ELSE CHOOSE i \in S : \A j \in S : j <= i

\* expected_tablet_state_[key] is not empty: the row is expected to exist.
RowExpected(ws, key) ==
  LatestOp(ws, key) # 0 /\ ws[LatestOp(ws, key)].op # TEST_DELETE

\* The mutations of a batch are always valid: an insert only when there is no
\* row, an update or a delete only when there is one.
RECURSIVE ValidOps(_, _)
ValidOps(exists, ops) ==
  IF ops = <<>> THEN TRUE
  ELSE /\ IF exists THEN Head(ops) \in {TEST_UPDATE, TEST_DELETE}
                    ELSE Head(ops) = TEST_INSERT
       /\ ValidOps(Head(ops) # TEST_DELETE, Tail(ops))

\* The write id of the n-th operation of a batch.
BatchWriteId(n) == n - 1

\* The entries of one write batch: the n-th operation is written at the
\* batch's hybrid time with its own write id, a delete as a tombstone, an
\* insert or update as a payload (the number of the operation in the history).
RECURSIVE ApplyBatch(_, _, _, _, _, _)
ApplyBatch(d, key, ops, ht, n, first) ==
  IF n > Len(ops) THEN d
  ELSE ApplyBatch(
         Insert(d, [key |-> SubDocKeyEncode(
                              [path |-> key, hybrid_time |-> ht,
                               write_id |-> BatchWriteId(n)], TRUE),
                    value |-> IF ops[n] = TEST_DELETE
                              THEN <<kTombstone>>
                              ELSE ValueEncode(kMaxTtl, first + n),
                    flushed |-> FALSE]),
         key, ops, ht, n + 1, first)

\* The same operations as they enter the history.
BatchHistory(key, ops, ht) ==
  [n \in 1..Len(ops) |->
     [path |-> key, hybrid_time |-> ht, write_id |-> BatchWriteId(n),
      ttl |-> kMaxTtl, op |-> ops[n]]]

\* Tablet::Flush: the entries in memory go to a file.
FlushAll(d) == [n \in 1..Len(d) |-> [d[n] EXCEPT !.flushed = TRUE]]

\* Entry n is in a file and a later version of its key is in a file too.
Overwritten(d, n) ==
  /\ d[n].flushed
  /\ \E m \in 1..Len(d) :
       /\ m < n
       /\ d[m].flushed
       /\ DecodeFromEnd(d[m].key).prefix = DecodeFromEnd(d[n].key).prefix

\* Mutant: the compaction drops tombstones and keeps what they had deleted.
CompactAll_KeepsDeletedVersions(d) ==
  SelectSeq(d, LAMBDA e : ~(e.flushed /\ e.value = <<kTombstone>>))

\* Tablet::Compact(FORCE_COMPACT_ALL): of the entries in files, overwritten
\* versions are removed, and so is a tombstone that is the latest version.
CompactAll(d) ==
  LET keep == {n \in 1..Len(d) :
                 /\ ~Overwritten(d, n)
                 /\ ~(d[n].flushed /\ d[n].value = <<kTombstone>>)}
      F[n \in 0..Len(d)] ==
        IF n = 0 THEN <<>>
        ELSE IF n \in keep THEN Append(F[n - 1], d[n]) ELSE F[n - 1]
  IN F[Len(d)]

\* GetRow(key): a point read as of now with a new iterator; the rows returned.
GetRow(d, key, now, max) ==
  LET r == SeekToValidKvAtTs(d, 0, key, now, max) IN
  IF r.status = OK /\ r.is_found /\ r.found_value.type # kTombstone
  THEN <<r.found_value.payload>>
  ELSE <<>>

\* LocalTabletWriter::WriteBatch of valid operations on one row.
CallWriteBatch(key, ops) ==
  /\ last.op = "none"
  /\ clock < MaxBatches
  /\ ValidOps(RowExpected(writes, key), ops)
  /\ db' = ApplyBatch(db, key, ops, clock + 1, 1, Len(writes))
  /\ writes' = writes \o BatchHistory(key, ops, clock + 1)
  /\ clock' = clock + 1
  /\ write_id' = BatchWriteId(Len(ops))
  /\ iter' = 0
  /\ UNCHANGED <<max_nexts, last, intentvars, decoder, tabletvars>>

\* TEST_FLUSH_TABLET, and the flush of the background thread.
Flush ==
  /\ \E n \in 1..Len(db) : ~db[n].flushed
  /\ db' = FlushAll(db)
  /\ UNCHANGED <<clock, write_id, iter, writes, max_nexts, last, intentvars, decoder, tabletvars>>

\* TEST_COMPACT_TABLET, and the compaction of the background thread.
Compact ==
  /\ \E n \in 1..Len(db) : db[n].flushed
  /\ db' = CompactAll(db)
  /\ iter' = 0
  /\ UNCHANGED <<clock, write_id, writes, max_nexts, last, intentvars, decoder, tabletvars>>

CallGetRow(key) ==
  /\ last.op = "none"
  /\ last' = [op |-> "GetRow", key |-> key,
              rows |-> GetRow(db, key, clock, max_nexts)]
  /\ UNCHANGED <<db, clock, write_id, iter, writes, max_nexts, intentvars, decoder, tabletvars>>

\* Batches and reads of the test thread; flushes and compactions at any
\* point between them, as the background thread makes them.
NextTablet ==
  \/ \E key \in RowKeys, n \in 1..MaxBatchOps :
       \E ops \in [1..n -> {TEST_INSERT, TEST_UPDATE, TEST_DELETE}] :
         CallWriteBatch(key, ops)
  \/ \E key \in RowKeys : CallGetRow(key)
  \/ Return
  \/ Flush
  \/ Compact

SpecTablet == Init /\ [][NextTablet]_vars

\* ------------------------------------------------------ block decoding
\* Sorted sequences of values, as a block builder writes them.
SortedElems ==
  UNION {{e \in [1..n -> 0..MaxValue] : \A i \in 1..(n - 1) : e[i] <= e[i + 1]} :
           n \in 0..MaxElems}

\* The slices a decoder is constructed on: whole blocks, and slices that are
\* too short for a header or whose size does not fit the element count.
Blocks ==
  {Block(TRUE, Len(e), 0, e) : e \in SortedElems}
    \cup {Block(FALSE, 0, 0, <<>>), Block(TRUE, 2, 0, <<0>>), Block(TRUE, 0, 0, <<1>>)}

CallPlainBlockDecoder(slice) ==
  /\ last.op = "none"
  /\ ~decoder.constructed
  /\ decoder' = PlainBlockDecoderNew(slice)
  /\ UNCHANGED <<seekvars, intentvars, tabletvars>>

\* ParseHeader() is called once (CHECK(!parsed_)).
CallParseHeader ==
  /\ last.op = "none"
  /\ decoder.constructed
  /\ ~decoder.parsed_
  /\ LET r == ParseHeader(decoder) IN
     /\ decoder' = r.dec
     /\ last' = [op |-> "ParseHeader", status |-> r.status]
  /\ UNCHANGED <<db, clock, write_id, iter, writes, max_nexts, intentvars, tabletvars>>

\* SeekToPositionInBlock(pos) on a parsed block, with pos <= num_elems_.
CallSeekToPositionInBlock(pos) ==
  /\ last.op = "none"
  /\ decoder.parsed_
  /\ pos <= decoder.num_elems_
  /\ decoder' = SeekToPositionInBlock(decoder, pos)
  /\ last' = [op |-> "SeekToPositionInBlock", pos |-> pos]
  /\ UNCHANGED <<db, clock, write_id, iter, writes, max_nexts, intentvars, tabletvars>>

CallSeekAtOrAfterValue(target) ==
  /\ last.op = "none"
  /\ decoder.parsed_
  /\ LET r == SeekAtOrAfterValue(decoder, target) IN
     /\ decoder' = r.dec
     /\ last' = [op |-> "SeekAtOrAfterValue", target |-> target,
                 status |-> r.status, exact_match |-> r.exact_match,
                 pre |-> decoder.cur_idx_]
  /\ UNCHANGED <<db, clock, write_id, iter, writes, max_nexts, intentvars, tabletvars>>

\* CopyNextValues(&n, dst) on a parsed block.
CallCopyNextValues(n) ==
  /\ last.op = "none"
  /\ decoder.parsed_
  /\ LET r == CopyNextValues(decoder, n) IN
     /\ decoder' = r.dec
     /\ last' = [op |-> "CopyNextValues", n |-> r.n, values |-> r.values,
                 pre |-> decoder.cur_idx_]
  /\ UNCHANGED <<db, clock, write_id, iter, writes, max_nexts, intentvars, tabletvars>>

\* The decoder is destroyed.
DropDecoder ==
  /\ last.op = "none"
  /\ decoder.constructed
  /\ decoder' = NoDecoder
  /\ UNCHANGED <<seekvars, intentvars, tabletvars>>

\* Element counts a header may state: small ones, and ones whose byte count
\* does not fit in uint32_t.
HeaderCounts ==
  (0..MaxElems) \cup {kUint32Modulus \div size_of_type + n : n \in 0..MaxElems}

\* Slices with any header over any elements, and slices too short for one.
HeaderBlocks ==
  {Block(TRUE, n, 0, e) : n \in HeaderCounts, e \in SortedElems}
    \cup {Block(FALSE, 0, 0, <<>>)}

\* Decoders are constructed on arbitrary slices and parse their header.
NextBlockHeader ==
  \/ \E b \in HeaderBlocks : CallPlainBlockDecoder(b)
  \/ CallParseHeader
  \/ Return
  \/ DropDecoder

SpecBlockHeader == InitIntent /\ [][NextBlockHeader]_vars

NextBlock ==
  \/ \E b \in Blocks : CallPlainBlockDecoder(b)
  \/ CallParseHeader
  \/ \E pos \in 0..MaxElems : CallSeekToPositionInBlock(pos)
  \/ \E target \in 0..(MaxValue + 1) : CallSeekAtOrAfterValue(target)
  \/ \E n \in 0..(MaxElems + 1) : CallCopyNextValues(n)
  \/ Return
  \/ DropDecoder

SpecBlock == InitIntent /\ [][NextBlock]_vars

\* AboutToWriteToDb(hybrid_time), up to the load of the current value.
AboutToWriteToDb_Load(w, hybrid_time) ==
  /\ flush_stats.writer[w].pc = "idle"
  /\ flush_stats' =
       [flush_stats EXCEPT
          !.writer[w] = [pc |-> "loop", curr_val |-> hybrid_time,
                         prev_val |-> flush_stats.oldest_write_in_memstore_],
          !.issued = @ \cup {hybrid_time}]
  /\ UNCHANGED <<seekvars, intentvars, decoder, txn_op>>

\* One evaluation of the while condition of AboutToWriteToDb: the call
\* returns if curr_val is not smaller than prev_val or the exchange succeeds;
\* a failed exchange reloads prev_val, and a spurious failure changes nothing.
AboutToWriteToDb_Loop(w) ==
  LET me == flush_stats.writer[w]
      x == compare_exchange(flush_stats.oldest_write_in_memstore_,
                            me.prev_val, me.curr_val)
  IN
  /\ me.pc = "loop"
  /\ IF ~(me.curr_val < me.prev_val)
     THEN flush_stats' = [flush_stats EXCEPT !.writer[w] = IdleWriter]
     ELSE \/ flush_stats' =
               [flush_stats EXCEPT
                  !.oldest_write_in_memstore_ = x.value,
                  !.writer[w] = IF x.ok THEN IdleWriter
                                ELSE [me EXCEPT !.prev_val = x.expected]]
          \/ flush_stats' = flush_stats
  /\ UNCHANGED <<seekvars, intentvars, decoder, txn_op>>

\* OnFlushScheduled(db), the store of the maximum.
OnFlushScheduled_Store ==
  /\ flush_stats.flusher = "idle"
  /\ flush_stats.flush_calls < MaxFlushes
  /\ flush_stats' =
       [flush_stats EXCEPT
          !.oldest_write_in_memstore_ = kUint64Max,
          !.flusher = "stored",
          !.issued = {},
          !.straddled = \E w \in Writers : flush_stats.writer[w].pc # "idle",
          !.flush_calls = @ + 1]
  /\ UNCHANGED <<seekvars, intentvars, decoder, txn_op>>

\* OnFlushScheduled(db), num_flushes_++.
OnFlushScheduled_Increment ==
  /\ flush_stats.flusher = "stored"
  /\ flush_stats' = [flush_stats EXCEPT !.num_flushes_ = @ + 1,
                                        !.flusher = "idle"]
  /\ UNCHANGED <<seekvars, intentvars, decoder, txn_op>>

\* Writer threads and the flush scheduler run concurrently.
NextFlush ==
  \/ \E w \in Writers, h \in WriteTimes : AboutToWriteToDb_Load(w, h)
  \/ \E w \in Writers : AboutToWriteToDb_Loop(w)
  \/ OnFlushScheduled_Store
  \/ OnFlushScheduled_Increment

SpecFlush == InitIntent /\ [][NextFlush]_vars

\* An operation is created by a leader, with a request and no hybrid time,
\* or for a replicated message, which carries a hybrid time and whose request
\* is attached afterwards.
NewUpdateTxnOperation(type, request, hybrid_time) ==
  /\ txn_op.phase = "none"
  /\ type = REPLICA \/ request # NullRequest
  /\ txn_op' = [NoOperation EXCEPT !.phase = "created", !.type = type,
                                   !.request_ = request,
                                   !.hybrid_time = hybrid_time,
                                   !.carried = hybrid_time]
  /\ UNCHANGED <<seekvars, intentvars, decoder, flush_stats>>

\* UpdateTxnOperationState::UpdateRequestFromConsensusRound().
CallUpdateRequestFromConsensusRound(request) ==
  /\ txn_op.phase = "created"
  /\ txn_op.call.op = "none"
  /\ txn_op.type = REPLICA
  /\ txn_op.request_ = NullRequest
  /\ txn_op' = [txn_op EXCEPT !.request_ = request]
  /\ UNCHANGED <<seekvars, intentvars, decoder, flush_stats>>

\* UpdateTxnOperation::Start(), with the local clock at now.
CallStart(now) ==
  /\ txn_op.phase = "created"
  /\ txn_op.call.op = "none"
  /\ txn_op.request_ # NullRequest
  /\ txn_op' = [UpdateTxnOperation_Start(txn_op, now) EXCEPT
                  !.phase = "started", !.now = now]
  /\ UNCHANGED <<seekvars, intentvars, decoder, flush_stats>>

\* UpdateTxnOperation::Apply(commit_msg).
CallApply ==
  /\ txn_op.phase = "started"
  /\ txn_op.call.op = "none"
  /\ txn_op' = [txn_op EXCEPT !.phase = "applied",
                              !.replicated = UpdateTxnOperation_Apply(txn_op)]
  /\ UNCHANGED <<seekvars, intentvars, decoder, flush_stats>>

\* UpdateTxnOperationState::ToString(), at any time in the operation's life.
CallToString ==
  /\ txn_op.phase # "none"
  /\ txn_op.call.op = "none"
  /\ \E result \in UpdateTxnOperationState_ToString(txn_op) :
       txn_op' = [txn_op EXCEPT !.call = [op |-> "ToString", result |-> result]]
  /\ UNCHANGED <<seekvars, intentvars, decoder, flush_stats>>

\* The caller of ToString goes on, if the process still runs.
ReturnToString ==
  /\ txn_op.call.op = "ToString"
  /\ txn_op.call.result # <<"SIGSEGV">>
  /\ txn_op' = [txn_op EXCEPT !.call = NoOpCall]
  /\ UNCHANGED <<seekvars, intentvars, decoder, flush_stats>>

\* The operation is finished and released.
ReleaseOperation ==
  /\ txn_op.phase = "applied"
  /\ txn_op.call.op = "none"
  /\ txn_op' = NoOperation
  /\ UNCHANGED <<seekvars, intentvars, decoder, flush_stats>>

\* The life of one UpdateTxnOperation after another.
NextTxnOp ==
  \/ \E type \in {LEADER, REPLICA}, r \in Requests \cup {NullRequest},
        h \in OpTimes \cup {NoHybridTime} : NewUpdateTxnOperation(type, r, h)
  \/ \E r \in Requests : CallUpdateRequestFromConsensusRound(r)
  \/ \E now \in OpTimes : CallStart(now)
  \/ CallApply
  \/ CallToString
  \/ ReturnToString
  \/ ReleaseOperation

SpecTxnOp == InitIntent /\ [][NextTxnOp]_vars

\* --------------------------------------------------- damaged key space
\* Hybrid times of the entries of the damaged key space.
RawTimes == 1..2

\* Keys found in it: well-formed ones, a key with no timestamp field, a
\* timestamp field out of range, and a timestamp tag inside the path.
RawKeys ==
  {AppendDocHybridTime([hybrid_time |-> t, write_id |-> 0], p) :
     p \in Paths, t \in RawTimes}
    \cup {<<1, 1>>, <<1, 2>>, <<1, kHybridTime, kMaxHybridTime + 1, 0>>}
    \cup {AppendDocHybridTime([hybrid_time |-> t, write_id |-> 0], <<1, 1, kHybridTime>>) :
            t \in RawTimes}

\* Values found in it: a payload, a truncated TTL field, a TTL of zero before
\* an unknown type tag, and an unknown type tag.
RawValues ==
  {ValueEncode(kMaxTtl, 1), <<kTtl>>, <<kTtl, 0, kString + 1>>, <<kString + 1>>}

\* The engine holds one more entry, whatever its bytes.
WriteRaw(key, value) ==
  /\ last.op = "none"
  /\ ~ia.open
  /\ Len(db) < MaxRaw
  /\ \A i \in 1..Len(db) : db[i].key # key
  /\ db' = Insert(db, [key |-> key, value |-> value])
  /\ iter' = 0
  /\ UNCHANGED <<clock, write_id, writes, max_nexts, last, intentvars, decoder, tabletvars>>

NextCorrupt ==
  \/ \E k \in RawKeys, v \in RawValues : WriteRaw(k, v)
  \/ \E k \in Paths, t \in 0..3 : CallSeekToValidKvAtTs(k, t)
  \/ Return

SpecCorrupt == InitIntent /\ [][NextCorrupt]_vars

\* ------------------------------------------------------------ codec calls
\* The valid SubDocKeys given to the codec: every path, small and largest
\* hybrid times and write ids.
SubDocKeys ==
  [path : Paths,
   hybrid_time : (0..MaxCodecTime) \cup {kMaxHybridTime},
   write_id : (0..MaxCodecWriteId) \cup {kMaxWriteId}]

\* Two keys are encoded; the first encoding is decoded again, as a whole key
\* and from its end.
CallSubDocKeyEncode(a, b) ==
  /\ last.op = "none"
  /\ LET enc_a == SubDocKeyEncode(a, TRUE) IN
     last' = [op |-> "SubDocKeyEncode", a |-> a, b |-> b,
              enc_a |-> enc_a, enc_b |-> SubDocKeyEncode(b, TRUE),
              full |-> FullyDecodeFrom(enc_a), from_end |-> DecodeFromEnd(enc_a)]
  /\ UNCHANGED <<db, clock, write_id, iter, writes, max_nexts, intentvars, decoder, tabletvars>>

NextCodec ==
  \/ \E a, b \in SubDocKeys : CallSubDocKeyEncode(a, b)
  \/ Return

SpecCodec == Init /\ [][NextCodec]_vars

\* ------------------------------------------------------------------- Uuid
\* A UUID is its byte array boost_uuid_.data, scaled to five bytes: the low
\* timestamp bits in byte 0, the mid bits in byte 1, the version nibble and
\* the high timestamp bits in byte 2, and two remaining bytes (clock sequence
\* and node).  Sequences are 1-based, so data[i] of the code is data[i + 1].
kUuidSize == 5
kUuidMsbSize == 3
kTimeMidBegin == 1
kTimeHiBegin == 2

\* The version is the upper nibble of the first high-timestamp byte.
kVersionShift == 16
version_time_based == 1
version_random_number_based == 4
Versions == {version_time_based, version_random_number_based}

Bytes == 0..MaxByte
Uuids ==
  {<<low, mid, v * kVersionShift + hi, r1, r2>> :
     low \in Bytes, mid \in Bytes, v \in Versions, hi \in Bytes,
     r1 \in Bytes, r2 \in Bytes}

version(data) == data[kTimeHiBegin + 1] \div kVersionShift

\* bool operator==: byte-wise equality of the two arrays.
Uuid_eq(a, b) == a = b

\* One comparison loop of operator< over data[i .. end - 1].  Both branches
\* of the loop body test data[i] < other.data[i], so the second one is never
\* taken and a greater byte lets the loop continue.
RECURSIVE ByteLoop(_, _, _, _)
ByteLoop(a, b, i, end) ==
  IF i >= end THEN "continue"
  ELSE IF a[i + 1] < b[i + 1] THEN "true"
  ELSE IF a[i + 1] < b[i + 1] THEN "false"
  ELSE ByteLoop(a, b, i + 1, end)

\* The loops of operator< in order; the first that returns decides.
RECURSIVE RunLoops(_, _, _)
RunLoops(a, b, loops) ==
  IF loops = <<>> THEN FALSE
  ELSE LET r == ByteLoop(a, b, loops[1][1], loops[1][2]) IN
       IF r = "continue" THEN RunLoops(a, b, Tail(loops)) ELSE r = "true"

\* bool Uuid::operator<(const Uuid& other).
Uuid_less(a, b) ==
  IF version(a) < version(b) THEN TRUE
  ELSE IF version(a) > version(b) THEN FALSE
  ELSE IF version(a) = version_time_based
       THEN RunLoops(a, b, << <<kTimeHiBegin, kUuidMsbSize>>,
                              <<kTimeMidBegin, kTimeHiBegin>>,
                              <<0, kTimeMidBegin>>,
                              <<kUuidMsbSize, kUuidSize>> >>)
       ELSE RunLoops(a, b, << <<0, kUuidMsbSize>>,
                              <<kUuidMsbSize, kUuidSize>> >>)

\* operator>, operator<= and operator>= in terms of operator<.
Uuid_greater(a, b) == Uuid_less(b, a)
Uuid_less_equal(a, b) == ~Uuid_less(b, a)
Uuid_greater_equal(a, b) == ~Uuid_less(a, b)

\* toTimestampBytes: [version, high bits][mid bits][low bits].
toTimestampBytes(data) ==
  <<data[kTimeHiBegin + 1], data[kTimeMidBegin + 1], data[1]>>

\* Two UUIDs are compared in every way the class offers.
CallUuidCompare(a, b) ==
  /\ last.op = "none"
  /\ last' = [op |-> "Uuid::operator<", a |-> a, b |-> b,
              lt |-> Uuid_less(a, b), gt |-> Uuid_greater(a, b),
              le |-> Uuid_less_equal(a, b), ge |-> Uuid_greater_equal(a, b),
              eq |-> Uuid_eq(a, b)]
  /\ UNCHANGED <<db, clock, write_id, iter, writes, max_nexts, intentvars, decoder, tabletvars>>

NextUuid ==
  \/ \E a, b \in Uuids : CallUuidCompare(a, b)
  \/ Return

SpecUuid == InitIntent /\ [][NextUuid]_vars

\* ------------------------------------------------------------------ claims
LastSeek == last.op = "SeekToValidKvAtTs"

\* The writes made to exactly this path.
OwnVersions(k) == {i \in 1..Len(writes) : writes[i].path = k}

\* Some write went to a proper descendant of this path.
HasDescendants(k) ==
  \E i \in 1..Len(writes) : writes[i].path # k /\ starts_with(writes[i].path, k)

\* Write i is later than write j in (hybrid time, write id) order.
Newer(i, j) ==
  \/ writes[i].hybrid_time > writes[j].hybrid_time
  \/ /\ writes[i].hybrid_time = writes[j].hybrid_time
     /\ writes[i].write_id > writes[j].write_id

VersionsAtOrBefore(k, t) == {i \in OwnVersions(k) : writes[i].hybrid_time <= t}

\* The latest write to the path at or before time t (0 if there is none).
NewestAtOrBefore(k, t) ==
  LET S == VersionsAtOrBefore(k, t) IN
  IF S = {} THEN 0 ELSE CHOOSE i \in S : \A j \in S : i = j \/ Newer(i, j)

\* The write whose entry the iterator stands on (its payload is its number).
LandedIndex == IterValue(db, iter)[Len(IterValue(db, iter))]
Landed == writes[LandedIndex]

StoredPayload(i) == [type |-> kString, payload |-> i]

\* C1: for a key whose stored versions carry no TTL and which has no
\* descendant keys, a read at T finds the version with the greatest hybrid
\* time <= T, and finds nothing when every version is newer than T.
C1_FindsGreatestVersionAtOrBefore ==
  (/\ LastSeek
   /\ ~HasDescendants(last.key)
   /\ \A i \in OwnVersions(last.key) : writes[i].ttl = kMaxTtl)
  => LET n == NewestAtOrBefore(last.key, last.hybrid_time) IN
     /\ last.res.status = OK
     /\ IF n = 0
        THEN ~last.res.is_found
        ELSE /\ last.res.is_found
             /\ last.res.found_key =
                  [path |-> last.key, hybrid_time |-> writes[n].hybrid_time,
                   write_id |-> writes[n].write_id]
             /\ last.res.found_value = StoredPayload(n)

\* Witness of C1: a read between two versions returns the older one.
C1_Witness ==
  /\ LastSeek
  /\ ~HasDescendants(last.key)
  /\ \A i \in OwnVersions(last.key) : writes[i].ttl = kMaxTtl
  /\ last.res.is_found
  /\ \E i, j \in OwnVersions(last.key) :
       /\ writes[i].hybrid_time <= last.hybrid_time
       /\ last.hybrid_time < writes[j].hybrid_time
       /\ last.res.found_key.hybrid_time = writes[i].hybrid_time

\* C2: whenever SeekToValidKvAtTs returns OK with is_found, the hybrid time
\* of found_key is <= the read time and the found key starts with search_key,
\* in every key space (newer descendants, expired values included).
C2_FoundKeyNotNewerAndPrefixed ==
  (LastSeek /\ last.res.status = OK /\ last.res.is_found)
  => /\ last.res.found_key.hybrid_time <= last.hybrid_time
     /\ starts_with(SubDocKeyEncode(last.res.found_key, TRUE), last.key)

\* Witness of C2: a descendant newer than the read time was skipped and an
\* older descendant was found.
C2_Witness ==
  /\ LastSeek
  /\ last.res.status = OK
  /\ last.res.is_found
  /\ Len(last.res.probes) >= 2
  /\ \E i \in 1..Len(writes) :
       /\ writes[i].path # last.key
       /\ starts_with(writes[i].path, last.key)
       /\ writes[i].hybrid_time > last.hybrid_time

\* C3: a value written at w with TTL d is returned with its payload and time
\* w by reads at T with w <= T <= w + d, and as a tombstone with time w + d by
\* reads at T > w + d.
C3_TtlLiveThenTombstoneAtExpiry ==
  LET n == NewestAtOrBefore(last.key, last.hybrid_time) IN
  (/\ LastSeek
   /\ ~HasDescendants(last.key)
   /\ n # 0
   /\ writes[n].ttl # kMaxTtl)
  => /\ last.res.status = OK
     /\ last.res.is_found
     /\ last.res.found_key.path = last.key
     /\ IF last.hybrid_time <= writes[n].hybrid_time + writes[n].ttl
        THEN /\ last.res.found_value = StoredPayload(n)
             /\ last.res.found_key.hybrid_time = writes[n].hybrid_time
        ELSE /\ last.res.found_value = TombstoneValue
             /\ last.res.found_key.hybrid_time = writes[n].hybrid_time + writes[n].ttl

\* Witness of C3: an expired value with a TTL > 0 is reported as a tombstone
\* at its expiry instant.
C3_Witness ==
  /\ LastSeek
  /\ last.res.is_found
  /\ last.res.found_value = TombstoneValue
  /\ Landed.ttl # kMaxTtl
  /\ Landed.ttl >= 1
  /\ last.res.found_key.hybrid_time = Landed.hybrid_time + Landed.ttl

\* C4 as stated: a value with a TTL is live at T iff write_time <= T and
\* write_time + ttl > T, so a read at exactly write_time + ttl is a tombstone.
C4_AsStated ==
  (LastSeek /\ last.res.status = OK /\ last.res.is_found /\ Landed.ttl # kMaxTtl)
  => (last.res.found_value.type = kString
        <=> /\ Landed.hybrid_time <= last.hybrid_time
            /\ Landed.hybrid_time + Landed.ttl > last.hybrid_time)

\* C4 amended: a value with a TTL is live at T iff write_time <= T and
\* write_time + ttl >= T; the read yields a tombstone exactly for
\* T > write_time + ttl.
C4_LiveThroughExpiryInstant ==
  (LastSeek /\ last.res.status = OK /\ last.res.is_found /\ Landed.ttl # kMaxTtl)
  => /\ last.res.found_value = StoredPayload(LandedIndex)
          <=> /\ Landed.hybrid_time <= last.hybrid_time
              /\ Landed.hybrid_time + Landed.ttl >= last.hybrid_time
     /\ last.res.found_value = TombstoneValue
          <=> last.hybrid_time > Landed.hybrid_time + Landed.ttl

\* Witness of C4: a read at exactly write_time + ttl returns the payload.
C4_Witness ==
  /\ LastSeek
  /\ last.res.is_found
  /\ Landed.ttl # kMaxTtl
  /\ last.hybrid_time = Landed.hybrid_time + Landed.ttl
  /\ last.res.found_value = StoredPayload(LandedIndex)

\* The position is the first entry with key >= k, or not valid if none is.
AtFirstKeyAtOrAfter(pos, k) ==
  IF pos = 0
  THEN \A i \in 1..Len(db) : Compare(db[i].key, k) < 0
  ELSE /\ Compare(db[pos].key, k) >= 0
       /\ \A j \in 1..(pos - 1) : Compare(db[j].key, k) < 0

\* C5: for every iterator state at entry, every non-empty seek_key and every
\* step bound >= 0, PerformRocksDBSeek leaves the iterator where a native
\* Seek(seek_key) would, after any sequence of calls.
C5_SeekEquivalentToNativeSeek ==
  (last.op = "PerformRocksDBSeek" /\ last.key # <<>> /\ max_nexts >= 0)
  => AtFirstKeyAtOrAfter(iter, last.key)

\* Witness of C5: the step budget was used up and the native Seek was issued.
C5_Witness ==
  /\ last.op = "PerformRocksDBSeek"
  /\ max_nexts >= 1
  /\ last.nexts = max_nexts
  /\ last.seeks = 1

\* The place of a position in key order; a not-valid iterator is at the end.
Rank(pos) == IF pos = 0 THEN Len(db) + 1 ELSE pos

\* C6: SeekForward never moves the iterator backward, and changes nothing
\* when the current key is >= target.
C6_SeekForwardMonotonic ==
  last.op = "SeekForward"
  => /\ Rank(iter) >= Rank(last.pre)
     /\ (last.pre # 0 /\ Compare(db[last.pre].key, last.key) >= 0) => iter = last.pre

\* Witness of C6: a SeekForward that moved a valid iterator forward.
C6_Witness ==
  /\ last.op = "SeekForward"
  /\ last.pre # 0
  /\ Rank(iter) > Rank(last.pre)

\* C7: a read at T sees every write of the key with hybrid time <= T whatever
\* its write id, and of the entries at one hybrid time it returns the one with
\* the largest write id.
C7_VisibleRegardlessOfWriteId ==
  LET n == NewestAtOrBefore(last.key, last.hybrid_time) IN
  (LastSeek /\ n # 0)
  => /\ last.res.status = OK
     /\ last.res.is_found
     /\ iter # 0
     /\ LandedIndex = n

\* Witness of C7: two writes of the key at the read time itself; the one with
\* the larger write id is returned.
C7_Witness ==
  /\ LastSeek
  /\ last.res.is_found
  /\ \E i, j \in OwnVersions(last.key) :
       /\ writes[i].hybrid_time = last.hybrid_time
       /\ writes[j].hybrid_time = last.hybrid_time
       /\ writes[i].write_id > writes[j].write_id
       /\ LandedIndex = i

\* What the open intent-aware iterator stands on.
IACur == IACurrent(db, intents, txn_commit, ia)

\* The iterator has been positioned by a Seek and perhaps moved on by Next.
IAPositioned == ia.open /\ ia.op \in {"Seek", "Next"}

\* The surfaced entry comes from an intent of a transaction other than the
\* read's own.
FromOtherTxn(e) == e.txn # NoTxn /\ e.txn # ia.read_txn

\* The key an intent of a committed transaction is surfaced under.
CommittedKey(i) ==
  AppendDocHybridTime(
    [hybrid_time |-> txn_commit[i.txn], write_id |-> i.write_id], i.path)

\* The scan that began at ia.sought has gone over this key.
ScanReached(key) ==
  /\ IAPositioned
  /\ Compare(key, ia.sought) >= 0
  /\ ~IACur.valid \/ Compare(IACur.entry.key, key) >= 0

\* C8: an intent written by transaction X is visible to a read that carries
\* X's context; it is invisible to a read that carries the context of another
\* transaction while X has no commit record.
C8_OwnIntentsVisibleOthersInvisible ==
  /\ (/\ ia.open
      /\ ia.op = "Seek"
      /\ ia.read_txn # NoTxn
      /\ \E i \in intents : i.txn = ia.read_txn /\ i.path = ia.sought)
     => /\ IACur.valid
        /\ IACur.entry.txn = ia.read_txn
        /\ DecodeFromEnd(IACur.entry.key).prefix = ia.sought
  /\ (ia.open /\ ia.read_txn # NoTxn)
     => \A e \in ia.surfaced : FromOtherTxn(e) => txn_commit[e.txn] # 0

\* Witness of C8: two transactions in flight wrote the same key; the read of
\* one of them is on its own intent.
C8_Witness ==
  /\ ia.open
  /\ ia.op = "Seek"
  /\ ia.read_txn # NoTxn
  /\ IACur.valid
  /\ IACur.entry.txn = ia.read_txn
  /\ \E j \in intents : /\ j.txn # ia.read_txn
                        /\ txn_commit[j.txn] = 0
                        /\ j.path = ia.sought
                        /\ j.hybrid_time <= ia.read_time

\* C9: an intent of another transaction is surfaced to a read iff that
\* transaction has a commit record with commit time <= the read time, and then
\* at the commit time; so reads at or after the commit time see the write and
\* earlier reads do not.
C9_OtherIntentsSurfacedIffCommittedByReadTime ==
  /\ ia.open
     => \A e \in ia.surfaced :
          FromOtherTxn(e)
          => /\ txn_commit[e.txn] # 0
             /\ txn_commit[e.txn] <= ia.read_time
             /\ DecodeFromEnd(e.key).dht.hybrid_time = txn_commit[e.txn]
  /\ \A i \in intents :
       (/\ i.txn # ia.read_txn
        /\ txn_commit[i.txn] # 0
        /\ txn_commit[i.txn] <= ia.read_time
        /\ ScanReached(CommittedKey(i)))
       => \E e \in ia.surfaced : e.txn = i.txn /\ e.id = i.id

\* Witness of C9: one read surfaced the intent of a transaction committed by
\* its read time and went over the intent of a transaction committed later.
C9_Witness ==
  /\ IAPositioned
  /\ \E e \in ia.surfaced : FromOtherTxn(e)
  /\ \E i \in intents :
       /\ i.txn # ia.read_txn
       /\ txn_commit[i.txn] > ia.read_time
       /\ ScanReached(CommittedKey(i))
       /\ ~\E e \in ia.surfaced : e.txn = i.txn

\* C10: a read with no transaction context never returns a value that comes
\* from an intent of a transaction without a commit record.
C10_NoContextSeesNoUncommittedIntent ==
  (ia.open /\ ia.read_txn = NoTxn)
  => \A e \in ia.surfaced : e.txn = NoTxn \/ txn_commit[e.txn] # 0

\* Witness of C10: a read with no context scanned committed data to the end
\* of a key range in which a transaction in flight has an intent.
C10_Witness ==
  /\ IAPositioned
  /\ ia.read_txn = NoTxn
  /\ ia.surfaced # {}
  /\ ~IACur.valid
  /\ \E i \in intents : /\ txn_commit[i.txn] = 0
                        /\ i.hybrid_time <= ia.read_time
                        /\ Compare(i.path, ia.sought) >= 0

\* The hybrid time an entry of the merged view is surfaced at.
EffectiveTime(e) == DecodeFromEnd(e.key).dht.hybrid_time

\* C11: an intent-aware iterator built with upper bound high_ht never
\* surfaces an entry, committed or intent-derived, whose effective hybrid time
\* is greater than high_ht, after any sequence of Seek and Next.
C11_NothingSurfacedBeyondHighHt ==
  ia.open
  => /\ \A e \in ia.surfaced : EffectiveTime(e) <= ia.read_time
     /\ IACur.valid => EffectiveTime(IACur.entry) <= ia.read_time

\* Witness of C11: a scan surfaced an entry at exactly high_ht and went over
\* data (a committed entry or a committed intent) that is newer than high_ht.
C11_Witness ==
  /\ IAPositioned
  /\ \E e \in ia.surfaced : EffectiveTime(e) = ia.read_time
  /\ \/ \E n \in 1..Len(db) :
          /\ DecodeFromEnd(db[n].key).dht.hybrid_time > ia.read_time
          /\ ScanReached(db[n].key)
     \/ \E i \in intents :
          /\ txn_commit[i.txn] > ia.read_time
          /\ ScanReached(CommittedKey(i))

\* Key a is before key b in (DocKey, sub-path, reverse DocHybridTime) order:
\* paths component by component, a node before its descendants, and of two
\* versions of one path the later (time, write id) first.
Precedes(a, b) ==
  \/ Compare(a.path, b.path) < 0
  \/ /\ a.path = b.path
     /\ \/ a.hybrid_time > b.hybrid_time
        \/ a.hybrid_time = b.hybrid_time /\ a.write_id > b.write_id

\* C12: Encode(A) < Encode(B) as byte strings iff A precedes B in (DocKey,
\* sub-path, reverse DocHybridTime) order; of two versions of one key the one
\* with the larger (time, write_id) has the smaller encoding and is the first
\* one an iteration over the two meets.
C12_EncodingOrderPreserving ==
  last.op = "SubDocKeyEncode"
  => /\ Compare(last.enc_a, last.enc_b) < 0 <=> Precedes(last.a, last.b)
     /\ (last.a.path = last.b.path /\ Precedes(last.a, last.b))
        => LET d == Insert(Insert(<<>>, [key |-> last.enc_b, value |-> <<>>]),
                           [key |-> last.enc_a, value |-> <<>>])
           IN /\ Compare(last.enc_a, last.enc_b) < 0
              /\ IterKey(d, IterSeekToFirst(d)) = last.enc_a
              /\ IterKey(d, IterNext(d, IterSeekToFirst(d))) = last.enc_b

\* Witness of C12: a node with an old version against its child with a newer
\* one, and two versions of one key that differ in the write id only.
C12_Witness ==
  /\ last.op = "SubDocKeyEncode"
  /\ Compare(last.enc_a, last.enc_b) < 0
  /\ \/ /\ last.a.path # last.b.path
        /\ starts_with(last.b.path, last.a.path)
        /\ last.a.hybrid_time < last.b.hybrid_time
     \/ /\ last.a.path = last.b.path
        /\ last.a.hybrid_time = last.b.hybrid_time
        /\ last.a.write_id > last.b.write_id

\* C13: for every valid SubDocKey k, FullyDecodeFrom(Encode(k)) = k, and for
\* every valid DocHybridTime t, DecodeFromEnd(Encode(t)) = t (with the bytes
\* before it as the remaining prefix).
C13_EncodingRoundTrips ==
  last.op = "SubDocKeyEncode"
  => /\ last.full.status = OK
     /\ last.full.key = last.a
     /\ last.from_end.status = OK
     /\ last.from_end.dht =
          [hybrid_time |-> last.a.hybrid_time, write_id |-> last.a.write_id]
     /\ last.from_end.prefix = last.a.path

\* Witness of C13: a two-component key at a hybrid time and write id that
\* are neither the smallest nor the largest came back from the decoder.
C13_Witness ==
  /\ last.op = "SubDocKeyEncode"
  /\ Len(last.a.path) = 2
  /\ last.a.hybrid_time \in 1..(kMaxHybridTime - 1)
  /\ last.a.write_id \in 1..(kMaxWriteId - 1)
  /\ last.full.key = last.a

\* The key the latest seek of the call was given.
LastProbe == last.res.probes[Len(last.res.probes)]

\* The iterator stands on an entry whose key has the search key as a prefix.
OnPrefixedKey == iter # 0 /\ starts_with(db[iter].key, last.key)

\* C14: when the seek leaves the iterator exhausted or on a key that does not
\* have search_key as a prefix, SeekToValidKvAtTs returns OK with is_found
\* false and leaves found_key and found_value as they were.
C14_NotFoundIsOkAndLeavesOutputs ==
  (LastSeek /\ ~OnPrefixedKey)
  => /\ last.res.status = OK
     /\ ~last.res.is_found
     /\ last.res.found_key = NoKey
     /\ last.res.found_value = NoValue
     /\ AtFirstKeyAtOrAfter(iter, LastProbe)

\* Witness of C14: every version of the key is newer than the read; the seek
\* ran past them onto a key of another sub-document.
C14_Witness ==
  /\ LastSeek
  /\ iter # 0
  /\ ~starts_with(db[iter].key, last.key)
  /\ OwnVersions(last.key) # {}
  /\ ~last.res.is_found

\* C15: a read that lands on a value whose TTL has run out returns OK with
\* is_found true and a tombstone value.
C15_ExpiredIsFoundTombstone ==
  (/\ LastSeek
   /\ OnPrefixedKey
   /\ Landed.ttl # kMaxTtl
   /\ Landed.hybrid_time <= last.hybrid_time
   /\ last.hybrid_time > Landed.hybrid_time + Landed.ttl)
  => /\ last.res.status = OK
     /\ last.res.is_found
     /\ last.res.found_value = TombstoneValue

\* Witness of C15: the expired value is the only version of the key.
C15_Witness ==
  /\ LastSeek
  /\ OnPrefixedKey
  /\ Landed.ttl # kMaxTtl
  /\ last.hybrid_time > Landed.hybrid_time + Landed.ttl
  /\ Cardinality(OwnVersions(Landed.path)) = 1
  /\ last.res.is_found

\* The step of SeekToValidKvAtTs at which the entry the call ended on fails
\* to decode for a read at time t ("none" if every step that is run succeeds).
FailingStep(e, t) ==
  LET ts == DecodeFromEnd(e.key)
      dt == DecodeTTL(e.value)
  IN
  IF ts.status # OK THEN "timestamp"
  ELSE IF FullyDecodeFrom(e.key).status # OK THEN "key"
  ELSE IF dt.status # OK THEN "ttl"
  ELSE IF dt.ttl # kMaxTtl /\ t > ts.dht.hybrid_time + dt.ttl THEN "none"
  ELSE IF ValueDecode(dt.rest).status # OK THEN "value"
  ELSE "none"

\* C16: if a decode step of SeekToValidKvAtTs fails, the call returns that
\* failure (Corruption): the iterator is still on the entry that failed, where
\* the latest seek put it, no key was sought twice, and the result is neither
\* a not-found nor a tombstone nor a value.
C16_DecodeFailurePropagates ==
  LastSeek
  => /\ OnPrefixedKey
        => (last.res.status # OK <=> FailingStep(db[iter], last.hybrid_time) # "none")
     /\ last.res.status # OK
        => /\ last.res.status = Corruption
           /\ OnPrefixedKey
           /\ last.res.is_found
           /\ last.res.found_value = NoValue
           /\ AtFirstKeyAtOrAfter(iter, LastProbe)
           /\ \A i, j \in 1..Len(last.res.probes) :
                i # j => last.res.probes[i] # last.res.probes[j]

\* Witness of C16: the call skipped an entry newer than the read time and
\* then failed on the entry its second seek landed on.
C16_Witness ==
  /\ LastSeek
  /\ last.res.status = Corruption
  /\ Len(last.res.probes) >= 2
  /\ FailingStep(db[iter], last.hybrid_time) # "none"

\* C19: a value stored without a TTL field is never turned into a tombstone:
\* at every read time at which it is the newest visible version of the key the
\* read returns its payload; a value with TTL zero read after its write time
\* is a tombstone written at its write time.
C19_NoTtlNeverExpires ==
  LET n == NewestAtOrBefore(last.key, last.hybrid_time) IN
  /\ (LastSeek /\ n # 0 /\ writes[n].ttl = kMaxTtl)
     => /\ last.res.status = OK
        /\ last.res.is_found
        /\ last.res.found_value = StoredPayload(n)
        /\ last.res.found_key.hybrid_time = writes[n].hybrid_time
  /\ (LastSeek /\ n # 0 /\ writes[n].ttl = 0)
     => /\ last.res.status = OK
        /\ last.res.is_found
        /\ last.res.found_key.hybrid_time = writes[n].hybrid_time
        /\ IF last.hybrid_time > writes[n].hybrid_time
           THEN last.res.found_value = TombstoneValue
           ELSE last.res.found_value = StoredPayload(n)

\* Witness of C19: a value without a TTL is read long after a value with TTL
\* zero written at the same time has expired.
C19_Witness ==
  /\ LastSeek
  /\ last.res.is_found
  /\ last.res.found_value.type = kString
  /\ Landed.ttl = kMaxTtl
  /\ last.hybrid_time > Landed.hybrid_time + MaxTtl
  /\ \E j \in 1..Len(writes) :
       writes[j].ttl = 0 /\ writes[j].hybrid_time = Landed.hybrid_time

\* C17: after any valid insert / update / delete batches, with flushes and
\* full compactions between them at any point, a point read returns at most
\* one row, and a row it returns is the value of the latest write to the key:
\* never a deleted row, never an overwritten value.
C17_ReadReturnsLatestWriteOrNothing ==
  last.op = "GetRow"
  => /\ Len(last.rows) <= 1
     /\ Len(last.rows) = 1
        => /\ RowExpected(writes, last.key)
           /\ last.rows[1] = LatestOp(writes, last.key)

\* Witness of C17: a row was deleted and, in a later batch, inserted again;
\* everything was flushed and compacted; the read returns the new row.
C17_Witness ==
  /\ last.op = "GetRow"
  /\ Len(last.rows) = 1
  /\ \A n \in 1..Len(db) : db[n].flushed
  /\ Len(db) < Len(writes)
  /\ \E i, j \in 1..Len(writes) :
       /\ writes[i].path = last.key
       /\ writes[j].path = last.key
       /\ writes[i].op = TEST_DELETE
       /\ writes[j].op = TEST_INSERT
       /\ writes[i].hybrid_time < writes[j].hybrid_time

\* The operations the latest batch made on the row.
LatestBatchOps(key) ==
  {i \in 1..Len(writes) : writes[i].path = key /\ writes[i].hybrid_time = clock}

\* C18: when the latest batch holds several operations on one row, all at one
\* hybrid time, a read after it observes the last of them in batch order: its
\* value, or no row if it was a delete.
C18_LastOperationOfBatchWins ==
  (last.op = "GetRow" /\ Cardinality(LatestBatchOps(last.key)) >= 2)
  => last.rows =
       IF writes[LatestOp(writes, last.key)].op = TEST_DELETE
       THEN <<>>
       ELSE <<LatestOp(writes, last.key)>>

\* Witness of C18: an insert and an update of one row in one batch; the read
\* returns the updated value.
C18_Witness ==
  /\ last.op = "GetRow"
  /\ Cardinality(LatestBatchOps(last.key)) >= 2
  /\ Len(last.rows) = 1
  /\ writes[last.rows[1]].op = TEST_UPDATE
  /\ \E i \in LatestBatchOps(last.key) : writes[i].op = TEST_INSERT

\* The elements of the parsed block.
Elems == decoder.data_.elems

\* C20: SeekAtOrAfterValue on a parsed block of sorted values returns
\* NotFound iff every element is smaller than the target (the empty block
\* included), and then the position is the end of the block; otherwise it
\* returns OK on an element >= target, with exact_match iff that element
\* equals the target.
C20_SeekAtOrAfterValueNotFoundIffAllSmaller ==
  (last.op = "SeekAtOrAfterValue" /\ decoder.parsed_)
  => /\ last.status = NotFound <=> \A i \in 1..Len(Elems) : Elems[i] < last.target
     /\ last.status = NotFound
        => /\ decoder.cur_idx_ = decoder.num_elems_
           /\ ~last.exact_match
     /\ last.status # NotFound
        => /\ last.status = OK
           /\ decoder.cur_idx_ < decoder.num_elems_
           /\ Decode(decoder, decoder.cur_idx_) >= last.target
           /\ last.exact_match <=> Decode(decoder, decoder.cur_idx_) = last.target

\* Witness of C20: a seek from the middle of a full block to a target larger
\* than every element ended at the end of the block with NotFound.
C20_Witness ==
  /\ last.op = "SeekAtOrAfterValue"
  /\ last.status = NotFound
  /\ Len(Elems) = MaxElems
  /\ last.pre \in 1..(MaxElems - 1)
  /\ decoder.cur_idx_ = decoder.num_elems_

\* The slice's length is exactly header size + element count x element size.
LengthMatches(slice) ==
  /\ slice.has_header
  /\ SliceSize(slice) = kPlainBlockHeaderSize + slice.num_elems * size_of_type

\* C21 as stated: ParseHeader returns Corruption when the block is shorter
\* than the header or its length differs from header size + element count x
\* element size, and the decoder then stays unparsed; it returns OK only when
\* the length matches exactly, and then the decoder is parsed at index 0.
C21_AsStated ==
  last.op = "ParseHeader"
  => /\ last.status = OK <=> LengthMatches(decoder.data_)
     /\ last.status # OK => (last.status = Corruption /\ ~decoder.parsed_)
     /\ last.status = OK => (decoder.parsed_ /\ decoder.cur_idx_ = 0)

\* The entries under the prefix k whose hybrid time is <= t.
PrefixedAtOrBefore(k, t) ==
  {i \in 1..Len(db) : /\ starts_with(db[i].key, k)
                      /\ DecodeFromEnd(db[i].key).dht.hybrid_time <= t}

\* The first of a non-empty set of entries in key order.
FirstOf(S) == CHOOSE i \in S : \A j \in S : i <= j

\* A descendant entry of k newer than t, rewritten to time t.
RewrittenNewerDescendant(probe, k, t) ==
  \E i \in 1..Len(db) :
    /\ starts_with(db[i].key, k)
    /\ DecodeFromEnd(db[i].key).prefix # k
    /\ DecodeFromEnd(db[i].key).dht.hybrid_time > t
    /\ probe = ReplaceLastHybridTimeForSeek(db[i].key, t).key

\* C22: when search_key has no own entry at or before the read time but has
\* descendants, SeekToValidKvAtTs returns the first entry in key order that
\* has search_key as a prefix and hybrid time <= read time; every probe after
\* the first is a newer descendant's key with its time replaced by the read
\* time; not-found is reported only if no prefixed entry is old enough.
C22_FirstPrefixedEntryAtOrBefore ==
  (/\ LastSeek
   /\ VersionsAtOrBefore(last.key, last.hybrid_time) = {}
   /\ HasDescendants(last.key))
  => LET S == PrefixedAtOrBefore(last.key, last.hybrid_time) IN
     /\ last.res.status = OK
     /\ last.res.is_found <=> S # {}
     /\ last.res.is_found
          => /\ iter = FirstOf(S)
             /\ last.res.found_key =
                  [path |-> Landed.path, hybrid_time |-> Landed.hybrid_time,
                   write_id |-> Landed.write_id]
     /\ \A j \in 2..Len(last.res.probes) :
          RewrittenNewerDescendant(last.res.probes[j], last.key, last.hybrid_time)

\* Witness of C22: a.b is newer than the read time and has an older version
\* or a sibling a.c that is old enough; the read of a skips the newer entry
\* and returns the older one.
C22_Witness ==
  /\ LastSeek
  /\ VersionsAtOrBefore(last.key, last.hybrid_time) = {}
  /\ last.res.is_found
  /\ Len(last.res.probes) >= 2
  /\ Landed.path # last.key
  /\ \E i \in 1..Len(db) : i < iter /\ starts_with(db[i].key, last.key)

\* Where the j-th probe of the latest read left the iterator.
ProbeLanding(j) == last.res.landed[j]

\* C23: the probe loop of SeekToValidKvAtTs ends after finitely many probes:
\* every probe after the first is strictly greater, in key order, than the
\* key found by the probe before it, and the iterator position strictly
\* advances from probe to probe, so there are at most as many probes as
\* entries plus one.
C23_ProbesStrictlyAdvance ==
  LastSeek
  => /\ Len(last.res.probes) >= 1
     /\ Len(last.res.probes) <= Len(db) + 1
     /\ Len(last.res.landed) = Len(last.res.probes)
     /\ ProbeLanding(Len(last.res.probes)) = iter
     /\ \A j \in 2..Len(last.res.probes) :
          /\ IterValid(ProbeLanding(j - 1))
          /\ Compare(last.res.probes[j], db[ProbeLanding(j - 1)].key) > 0
          /\ Rank(ProbeLanding(j)) > Rank(ProbeLanding(j - 1))

\* Witness of C23: a read took three probes, skipping two newer entries.
C23_Witness ==
  /\ LastSeek
  /\ Len(last.res.probes) = 3
  /\ Rank(ProbeLanding(3)) > Rank(ProbeLanding(2))
  /\ Rank(ProbeLanding(2)) > Rank(ProbeLanding(1))

LastPerformSeek == last.op = "PerformRocksDBSeek"

\* The iterator was valid at entry of the latest call.
ValidAtEntry == IterValid(last.pre)

\* The order of the key the iterator was on at entry and the call's key.
EntryCompare == Compare(db[last.pre].key, last.key)

\* C24 as stated: with a non-empty seek_key, an iterator that is invalid or
\* at or before seek_key gets a native Seek directly and no Next(); Next()
\* steps are made only in the remaining case.
C24_AsStated ==
  (LastPerformSeek /\ last.key # <<>>)
  => /\ (~ValidAtEntry \/ EntryCompare <= 0) => (last.seeks = 1 /\ last.nexts = 0)
     /\ last.nexts > 0 => (ValidAtEntry /\ EntryCompare > 0)

\* C24 amended: with a non-empty seek_key, an iterator that is invalid or
\* past seek_key gets a native Seek directly and no Next(); Next() steps are
\* made only by a valid iterator strictly before seek_key, which makes at
\* least one whenever the bound is >= 1; an iterator on seek_key itself gets
\* no engine call at all.
C24_DirectSeekWhenInvalidOrPast ==
  (LastPerformSeek /\ last.key # <<>>)
  => /\ (~ValidAtEntry \/ EntryCompare > 0) => (last.seeks = 1 /\ last.nexts = 0)
     /\ last.nexts > 0 => (ValidAtEntry /\ EntryCompare < 0)
     /\ (ValidAtEntry /\ EntryCompare < 0 /\ max_nexts >= 1) => last.nexts >= 1
     /\ (ValidAtEntry /\ EntryCompare = 0) => (last.seeks = 0 /\ last.nexts = 0)
     /\ last.firsts = 0

\* Witness of C24: an iterator past seek_key was sought back directly, and
\* (in another call) one before seek_key stepped.
C24_Witness ==
  /\ LastPerformSeek
  /\ last.key # <<>>
  /\ ValidAtEntry
  /\ \/ EntryCompare > 0 /\ last.seeks = 1 /\ last.nexts = 0 /\ iter # last.pre
     \/ EntryCompare < 0 /\ last.nexts = 1 /\ last.seeks = 0

\* The entries from the iterator's place at entry onward that are before
\* the call's key.
BeforeKeyFromEntry ==
  Cardinality({i \in last.pre..Len(db) : Compare(db[i].key, last.key) < 0})

\* C25: one call of PerformRocksDBSeek issues at most max_nexts_to_avoid_seek
\* Next() calls and at most one native Seek(); in the stepping branch the
\* steps stop as soon as the iterator is invalid or at a key >= seek_key, and
\* the Seek is issued only when exactly max_nexts_to_avoid_seek steps have
\* left the iterator valid and before seek_key (bound 0: no Next(), one Seek()).
C25_AtMostMaxNextsAndOneSeek ==
  (LastPerformSeek /\ max_nexts >= 0)
  => /\ last.nexts <= max_nexts
     /\ last.seeks <= 1
     /\ (last.key # <<>> /\ ValidAtEntry /\ EntryCompare <= 0)
          => /\ last.nexts = IF BeforeKeyFromEntry <= max_nexts
                             THEN BeforeKeyFromEntry ELSE max_nexts
             /\ last.seeks = 1 <=> BeforeKeyFromEntry > max_nexts
             /\ last.seeks = 1 => last.nexts = max_nexts

\* Witness of C25: the bound is 1, one Next() left the iterator before
\* seek_key, and the native Seek followed.
C25_Witness ==
  /\ LastPerformSeek
  /\ last.key # <<>>
  /\ ValidAtEntry
  /\ max_nexts >= 1
  /\ BeforeKeyFromEntry > max_nexts
  /\ last.nexts = max_nexts
  /\ last.seeks = 1

\* C26: PerformRocksDBSeek with an empty seek_key puts the iterator on the
\* very first key of the key space (SeekToFirst) whatever its state at entry,
\* also when it was further ahead, and issues no Next() and no Seek(key).
C26_EmptyKeySeeksToFirst ==
  (LastPerformSeek /\ last.key = <<>>)
  => /\ last.firsts = 1
     /\ last.nexts = 0
     /\ last.seeks = 0
     /\ iter = IF Len(db) = 0 THEN 0 ELSE 1

\* Witness of C26: the iterator was beyond the first key and is put back on it.
C26_Witness ==
  /\ LastPerformSeek
  /\ last.key = <<>>
  /\ last.pre > 1
  /\ iter = 1
  /\ last.firsts = 1

\* C27: after SeekForward(target) on a valid iterator whose key is strictly
\* before target, the iterator is at the first key >= target, or invalid if
\* there is none; on an iterator that is not valid (exhausted or never
\* positioned) SeekForward makes no engine call and the iterator stays invalid.
C27_SeekForwardSeeksOnlyFromBefore ==
  (last.op = "SeekForward" /\ max_nexts >= 0)
  => /\ (ValidAtEntry /\ EntryCompare < 0) => AtFirstKeyAtOrAfter(iter, last.key)
     /\ ~ValidAtEntry
          => /\ ~IterValid(iter)
             /\ last.nexts = 0 /\ last.seeks = 0 /\ last.firsts = 0

\* Witness of C27: a forward seek from a key before the target moved the
\* iterator onto the first key at or after it.
C27_Witness ==
  /\ last.op = "SeekForward"
  /\ ValidAtEntry
  /\ EntryCompare < 0
  /\ IterValid(iter)
  /\ iter > last.pre
  /\ AtFirstKeyAtOrAfter(iter, last.key)

LastSeekPast == last.op = "SeekPastSubKey"

\* The key SeekPastSubKey seeks to: the encoded path followed by kMin.
PastKey == AppendDocHybridTime(DocHybridTime_kMin, last.key)

\* Entry i is a version of the entry of the path k itself.
OwnEntry(i, k) ==
  DecodeFromEnd(db[i].key).status = OK /\ DecodeFromEnd(db[i].key).prefix = k

\* Entry i belongs to a child of the path k.
ChildEntry(i, k) == starts_with(db[i].key, k) /\ ~OwnEntry(i, k)

\* The iterator was valid and before the sought key at entry.
BeforePastKeyAtEntry == ValidAtEntry /\ Compare(db[last.pre].key, PastKey) < 0

\* C28 as stated: after SeekPastSubKey(k) a valid iterator is after every
\* stored version of k's own entry and not past any entry of a child of k,
\* and the iterator has not moved backward.
C28_AsStated ==
  LastSeekPast
  => /\ Rank(iter) >= Rank(last.pre)
     /\ IterValid(iter)
          => /\ \A i \in 1..Len(db) : OwnEntry(i, last.key) => i < iter
             /\ \A i \in 1..Len(db) : ChildEntry(i, last.key) => i >= iter

\* C28 amended: SeekPastSubKey(k) seeks forward to Encode(k without hybrid
\* time) followed by kMin.  The iterator never moves backward and, if valid
\* afterwards, is after every stored version of k's own entry.  An iterator
\* that was valid and before that key at entry ends on the first key at or
\* after it, so no child entry of k is passed over; any other iterator is
\* left where it was, even when that is past child entries of k.
C28_SeeksPastOwnEntryForwardOnly ==
  (LastSeekPast /\ max_nexts >= 0)
  => /\ Rank(iter) >= Rank(last.pre)
     /\ IterValid(iter) => \A i \in 1..Len(db) : OwnEntry(i, last.key) => i < iter
     /\ IF BeforePastKeyAtEntry
        THEN /\ AtFirstKeyAtOrAfter(iter, PastKey)
             /\ \A i \in 1..Len(db) :
                  ChildEntry(i, last.key) => (IterValid(iter) /\ i >= iter)
        ELSE iter = last.pre

\* Witness of C28: the iterator was on a version of k's own entry and is
\* moved past the last one onto the first child entry.
C28_Witness ==
  /\ LastSeekPast
  /\ ValidAtEntry
  /\ OwnEntry(last.pre, last.key)
  /\ IterValid(iter)
  /\ ChildEntry(iter, last.key)
  /\ iter > last.pre + 1

\* The key ends in a timestamp that is neither kMin nor one with write id
\* kMaxWriteId.
NonCanonical(key) ==
  /\ DecodeFromEnd(key).status = OK
  /\ DecodeFromEnd(key).dht.write_id # kMaxWriteId
  /\ DecodeFromEnd(key).dht # DocHybridTime_kMin

\* C29: every seek key that SeekToValidKvAtTs hands to PerformRocksDBSeek (the
\* first probe and every rewritten one) ends in a timestamp with write id
\* kMaxWriteId, and the key SeekPastSubKey hands over ends in kMin, so the
\* debug check of PerformRocksDBSeek never fails for these callers; a key
\* that fails it is flagged only: the seek goes to the key as it was given.
C29_CallersKeepSeekKeyInvariant ==
  /\ LastSeek
       => \A j \in 1..Len(last.res.probes) :
            /\ DecodeFromEnd(last.res.probes[j]).status = OK
            /\ DecodeFromEnd(last.res.probes[j]).dht.write_id = kMaxWriteId
            /\ ~SeekKeyDcheckFails(last.res.probes[j])
  /\ LastSeekPast
       => /\ ~last.flagged
          /\ DecodeFromEnd(PastKey).dht = DocHybridTime_kMin
          /\ ~SeekKeyDcheckFails(PastKey)
  /\ LastPerformSeek
       => /\ last.flagged <=> NonCanonical(last.key)
          /\ (last.flagged /\ max_nexts >= 0) => AtFirstKeyAtOrAfter(iter, last.key)

\* Witness of C29: a read whose second probe is a rewritten key.
C29_Witness ==
  /\ LastSeek
  /\ Len(last.res.probes) >= 2
  /\ last.hybrid_time >= 1
  /\ DecodeFromEnd(LastProbe).dht =
       [hybrid_time |-> last.hybrid_time, write_id |-> kMaxWriteId]

\* C30 as stated: for every value of max_nexts_to_avoid_seek, negative ones
\* included, PerformRocksDBSeek with a non-empty seek_key on a valid iterator
\* that is before seek_key leaves the iterator on the first key >= seek_key,
\* or invalid if there is none.
C30_AsStated ==
  (LastPerformSeek /\ last.key # <<>> /\ ValidAtEntry /\ EntryCompare < 0)
  => AtFirstKeyAtOrAfter(iter, last.key)

\* What a caller gets from SeekToValidKvAtTs.
Outputs(r) == <<r.status, r.is_found, r.found_key, r.found_value>>

\* C31: a write of an entry whose hybrid time is greater than T (to the key
\* itself, to a descendant or to another key) does not change the status,
\* is_found, found key or found value of SeekToValidKvAtTs(search_key, T),
\* for every search_key and every T; so neither does any number of them.
C31_ReadsStableUnderLaterWrites ==
  [][Len(writes') = Len(writes) + 1
       => \A k \in Paths, t \in 0..kMaxHybridTime :
            t < writes'[Len(writes')].hybrid_time
              => Outputs(SeekToValidKvAtTs(db', iter', k, t, max_nexts'))
                   = Outputs(SeekToValidKvAtTs(db, iter, k, t, max_nexts))]_vars

\* Witness of C31: a read at T finds a version of its key although a later
\* version of the same key and a later descendant have been written.
C31_Witness ==
  /\ LastSeek
  /\ last.res.is_found
  /\ last.res.found_key.path = last.key
  /\ \E i \in OwnVersions(last.key) : writes[i].hybrid_time > last.hybrid_time
  /\ \E i \in 1..Len(writes) :
       /\ writes[i].path # last.key
       /\ starts_with(writes[i].path, last.key)
       /\ writes[i].hybrid_time > last.hybrid_time

\* C32: the status, is_found, found key and found value of SeekToValidKvAtTs
\* depend on the key space, search_key and the read time only: from every
\* iterator state at entry (any position, or not valid) the call returns what
\* the latest call returned.
C32_OutputsIndependentOfEntryPosition ==
  (LastSeek /\ max_nexts >= 0)
  => \A pos \in 0..Len(db) :
       Outputs(SeekToValidKvAtTs(db, pos, last.key, last.hybrid_time, max_nexts))
         = Outputs(last.res)

\* Witness of C32: the read found an entry that has entries on both sides,
\* so the iterator can have been before it, on it, past it or not valid.
C32_Witness ==
  /\ LastSeek
  /\ max_nexts >= 0
  /\ last.res.is_found
  /\ Len(db) >= 3
  /\ iter > 1
  /\ iter < Len(db)

\* C33: SeekToValidKvAtTs clears is_found only on the not-found return, whose
\* status is OK and which leaves found_key and found_value alone; on every
\* return with a status other than OK is_found still has the value true it
\* was given at entry, whether or not a key or a value was produced.
C33_IsFoundClearedOnlyOnNotFound ==
  LastSeek
  => /\ ~last.res.is_found
          => /\ last.res.status = OK
             /\ ~OnPrefixedKey
             /\ last.res.found_key = NoKey
             /\ last.res.found_value = NoValue
     /\ last.res.status # OK => last.res.is_found

\* Witness of C33: a call failed on the value of the entry it landed on and
\* returned with is_found true and no value.
C33_Witness ==
  /\ LastSeek
  /\ last.res.status # OK
  /\ last.res.is_found
  /\ last.res.found_key # NoKey
  /\ last.res.found_value = NoValue

\* The elements of the block that are >= the target, in block order.
ElemsAtOrAfter(target) ==
  LET AtOrAfter(v) == v >= target IN SelectSeq(Elems, AtOrAfter)

\* C34 as stated: on a parsed block of non-decreasing values (duplicates
\* allowed) a successful SeekAtOrAfterValue leaves the position at the lowest
\* index whose value is >= target, so that the values copied from the block
\* afterwards are exactly the elements >= target.
C34_AsStated ==
  (last.op = "SeekAtOrAfterValue" /\ decoder.parsed_ /\ last.status = OK)
  => /\ \A i \in 0..(decoder.cur_idx_ - 1) : Decode(decoder, i) < last.target
     /\ Decode(decoder, decoder.cur_idx_) >= last.target
     /\ CopyNextValues(decoder, Len(Elems)).values = ElemsAtOrAfter(last.target)

\* The bytes of element idx lie inside the slice.
InsideBlock(dec, idx) ==
  kPlainBlockHeaderSize + idx * size_of_type + size_of_type <= SliceSize(dec.data_)

\* C35 as stated: after ParseHeader returned OK, every element index below
\* Count() addresses bytes inside the block, for every element count a header
\* can state; the size check is not passed through wrap-around of the product
\* by a block shorter than its count says.
C35_AsStated ==
  (last.op = "ParseHeader" /\ last.status = OK)
  => \A idx \in 0..(Count(decoder) - 1) : InsideBlock(decoder, idx)

\* The smallest of a non-empty set of numbers.
Min(S) == CHOOSE x \in S : \A y \in S : x <= y

\* No AboutToWriteToDb call is in progress.
WritersIdle == \A w \in Writers : flush_stats.writer[w].pc = "idle"

C37_StartKeepsAssignedTimeAndApplyPassesIt ==
  /\ txn_op.phase \in {"started", "applied"}
       => txn_op.hybrid_time =
            IF txn_op.carried # NoHybridTime THEN txn_op.carried ELSE txn_op.now
  /\ txn_op.phase = "applied"
       => /\ txn_op.replicated.hybrid_time = txn_op.hybrid_time
          /\ txn_op.replicated.mode = LEADER <=> txn_op.type = LEADER
          /\ txn_op.replicated.mode \in {LEADER, NON_LEADER}
          /\ txn_op.replicated.request = txn_op.request_

\* Witness of C37: an operation for a replicated message was started while
\* the local clock showed another time, and applied with the message's time.
C37_Witness ==
  /\ txn_op.phase = "applied"
  /\ txn_op.type = REPLICA
  /\ txn_op.carried # NoHybridTime
  /\ txn_op.now # txn_op.carried
  /\ txn_op.replicated.hybrid_time = txn_op.carried
  /\ txn_op.replicated.mode = NON_LEADER

\* C38 as stated: ToString yields the request's debug string when a request
\* is attached and the placeholder "(none)" when none is, and never calls
\* through a null request pointer.
C38_AsStated ==
  txn_op.call.op = "ToString"
  => /\ txn_op.call.result \notin NullDereference
     /\ txn_op.call.result =
          IF txn_op.request_ # NullRequest
          THEN FormatState(ShortDebugString(txn_op.request_))
          ELSE FormatState(<<"(none)">>)

\* The remaining bytes after the timestamp part.
UuidRest(data) == SubSeq(data, kUuidMsbSize + 1, kUuidSize)

\* The order the comparison is meant to produce for two version-1 UUIDs:
\* timestamps (high, mid, low bits), then the remaining bytes, byte by byte.
TimestampOrderLess(a, b) ==
  Compare(toTimestampBytes(a) \o UuidRest(a), toTimestampBytes(b) \o UuidRest(b)) < 0

LastUuidCompare == last.op = "Uuid::operator<"

\* C39: Uuid::operator< is a strict total order consistent with operator==:
\* for all UUIDs a and b exactly one of a < b, a == b, b < a holds, and for
\* two version-1 UUIDs a < b agrees with comparing their timestamps (high
\* bits, then mid, then low) and then the remaining bytes lexicographically.
C39_AsStated ==
  LastUuidCompare =>
    /\ \/ last.lt /\ ~last.eq /\ ~last.gt
       \/ ~last.lt /\ last.eq /\ ~last.gt
       \/ ~last.lt /\ ~last.eq /\ last.gt
    /\ (version(last.a) = version_time_based /\ version(last.b) = version_time_based)
         => (last.lt <=> TimestampOrderLess(last.a, last.b))

====
